---- MODULE Spec2Model ----
(***************************************************************************)
(* Quoting engine of the DLMM SDK (src/src/core/QuoterManager.ts) and the  *)
(* DLMMClient.getQuote entry point that wraps it.                          *)
(*                                                                         *)
(* JavaScript runs one callback at a time, so every action below is the    *)
(* code that runs between two awaits of the ledger gateway                 *)
(* (suiClient.devInspectTransactionBlock).  Amounts are strings in the     *)
(* code; they stay strings here and go through ParseInt / ToStr.           *)
(***************************************************************************)
EXTENDS Integers, Sequences, FiniteSets, TLC

VARIABLES now, quoteCache, calls, positionCache, timers

vars == <<now, quoteCache, calls, positionCache, timers>>

(***************************************************************************)
(* Bounds of the model.                                                    *)
(***************************************************************************)
\* largest amount the gateway returns and a caller asks for
MaxAmount == 2
\* Date.now() advances in steps of TickMs, MaxTicks times
TickMs == 5000
MaxTicks == 2
\* the largest amountOut handed to calculateMinimumOutput
MaxOutput == 100
\* the largest bin id, and minus it the smallest
MaxBinId == 100000
\* on the position cache Date.now() advances in steps of PositionTickMs,
\* MaxPositionTicks times
PositionTickMs == 10000
MaxPositionTicks == 4

(***************************************************************************)
(* Program constants.                                                      *)
(***************************************************************************)
CACHE_TTL == 10000
\* CACHE_TTL of PositionManager
PositionCacheTTL == 30000
DefaultGasEstimate == 150000
DefaultSlippage == 50
DefaultMaxHops == 3
DefaultBinStep == 25
baseGas == 100000
gasPerHop == 150000
baseSlippage == 50
MaxAutoSlippage == 500
maxSlippage == 1000

(***************************************************************************)
(* Tokens.  USDC stands for `${packageId}::test_usdc::TEST_USDC`.          *)
(***************************************************************************)
Tokens == {"A", "B", "USDC"}

\* getCommonIntermediateTokens: the configured list of intermediates
getCommonIntermediateTokens == <<"USDC">>

(***************************************************************************)
(* Strings and numbers.                                                    *)
(***************************************************************************)
Digit == <<"0", "1", "2", "3", "4", "5", "6", "7", "8", "9">>

\* Number.prototype.toString of a non-negative integer
RECURSIVE ToStr(_)
ToStr(n) == IF n < 10 THEN Digit[n + 1] ELSE ToStr(n \div 10) \o Digit[(n % 10) + 1]

\* the integers whose decimal strings occur: amounts, fee sums, gas figures
NumDomain ==
    (0 .. (4 * MaxAmount + 4))
        \cup (0 .. MaxOutput)
        \cup {k * 50000 : k \in 0 .. 12}

IntStrings == {ToStr(n) : n \in NumDomain}

ParseIntTable == [s \in IntStrings |-> CHOOSE n \in NumDomain : ToStr(n) = s]

\* parseInt(s) is NaN exactly when IsNaNInt(s); otherwise it is ParseInt(s)
IsNaNInt(s) == s \notin IntStrings
ParseInt(s) == IF s \in IntStrings THEN ParseIntTable[s] ELSE 0

\* (parseInt(a) + parseInt(b)).toString()
AddIntStr(a, b) ==
    IF IsNaNInt(a) \/ IsNaNInt(b) THEN "NaN" ELSE ToStr(ParseInt(a) + ParseInt(b))

\* A price impact is a float in the code.  It is kept here in hundredths of
\* a percent; the values used are sums of 0.5, on which float arithmetic is
\* exact.  FloatStr is Number.prototype.toString on such a value.
FloatStr(h) ==
    IF h % 100 = 0 THEN ToStr(h \div 100)
    ELSE IF h % 10 = 0 THEN ToStr(h \div 100) \o "." \o Digit[((h % 100) \div 10) + 1]
    ELSE ToStr(h \div 100) \o "." \o Digit[((h % 100) \div 10) + 1] \o Digit[(h % 10) + 1]

FloatDomain == {5 * k : k \in 0 .. 1000}

FloatStrings == {FloatStr(h) : h \in FloatDomain}

ParseFloatTable == [s \in FloatStrings |-> CHOOSE h \in FloatDomain : FloatStr(h) = s]

IsNaNFloat(s) == s \notin FloatStrings
ParseFloat(s) == IF s \in FloatStrings THEN ParseFloatTable[s] ELSE 0

\* (parseFloat(a) + parseFloat(b)).toString()
AddFloatStr(a, b) ==
    IF IsNaNFloat(a) \/ IsNaNFloat(b) THEN "NaN" ELSE FloatStr(ParseFloat(a) + ParseFloat(b))

Max(a, b) == IF a >= b THEN a ELSE b
Min(a, b) == IF a <= b THEN a ELSE b

(***************************************************************************)
(* Quotes.                                                                 *)
(***************************************************************************)
\* createEmptyQuote: the canonical invalid quote
createEmptyQuote ==
    [amountOut |-> "0", amountIn |-> "0", priceImpact |-> "0", feeAmount |-> "0",
     gasEstimate |-> "0", poolId |-> "",
     route |-> [hops |-> <<>>, totalFee |-> "0", estimatedGas |-> "0",
                priceImpact |-> "0", routeType |-> "direct"],
     isValid |-> FALSE, slippageTolerance |-> DefaultSlippage]

\* A position of the gateway's returnValues that is not there
Undefined == "undefined"

\* JavaScript's v || d on a string or undefined
OrDefault(v, d) == IF v = Undefined \/ v = "" THEN d ELSE v

\* What devInspectTransactionBlock can answer: it throws, it resolves to
\* undefined, it resolves to a result without returnValues, or it resolves to
\* returnValues <<amountOut, priceImpact, feeAmount, gasEstimate>>
Reply(kind, vals) == [kind |-> kind, vals |-> vals]

ReplyThrow == Reply("throw", <<>>)
ReplyUndefined == Reply("undefined", <<>>)
ReplyNoReturnValues == Reply("noReturnValues", <<>>)

\* parseContractQuoteResult with isValid set whatever amountOut is
parseContractQuoteResultAlwaysValid(result, tokenIn, tokenOut, amountIn) ==
    IF result.kind = "values"
    THEN LET amountOut == OrDefault(result.vals[1], "0")
             priceImpact == OrDefault(result.vals[2], "0")
             feeAmount == OrDefault(result.vals[3], "0")
             gasEstimate == OrDefault(result.vals[4], ToStr(DefaultGasEstimate))
         IN [amountOut |-> amountOut, amountIn |-> amountIn,
             priceImpact |-> priceImpact, feeAmount |-> feeAmount,
             gasEstimate |-> gasEstimate, poolId |-> "",
             route |-> [hops |-> << [poolId |-> "", tokenIn |-> tokenIn,
                                     tokenOut |-> tokenOut, binStep |-> DefaultBinStep,
                                     expectedAmountIn |-> amountIn,
                                     expectedAmountOut |-> amountOut,
                                     expectedFee |-> feeAmount,
                                     priceImpact |-> priceImpact] >>,
                        totalFee |-> feeAmount, estimatedGas |-> gasEstimate,
                        priceImpact |-> priceImpact, routeType |-> "direct"],
             isValid |-> TRUE,
             slippageTolerance |-> DefaultSlippage]
    ELSE createEmptyQuote

\* parseContractQuoteResult with the requested amount kept in the empty quote
parseContractQuoteResultEcho(result, tokenIn, tokenOut, amountIn) ==
    IF result.kind = "values"
    THEN parseContractQuoteResultAlwaysValid(result, tokenIn, tokenOut, amountIn)
    ELSE [createEmptyQuote EXCEPT !.amountIn = amountIn]

\* parseContractQuoteResult: the quote read from a resolved gateway response.
\* A response that is undefined makes result.results throw inside the try,
\* and the catch returns the empty quote as well.
parseContractQuoteResult(result, tokenIn, tokenOut, amountIn) ==
    IF result.kind = "values"
    THEN LET amountOut == OrDefault(result.vals[1], "0")
             priceImpact == OrDefault(result.vals[2], "0")
             feeAmount == OrDefault(result.vals[3], "0")
             gasEstimate == OrDefault(result.vals[4], ToStr(DefaultGasEstimate))
         IN [amountOut |-> amountOut, amountIn |-> amountIn,
             priceImpact |-> priceImpact, feeAmount |-> feeAmount,
             gasEstimate |-> gasEstimate, poolId |-> "",
             route |-> [hops |-> << [poolId |-> "", tokenIn |-> tokenIn,
                                     tokenOut |-> tokenOut, binStep |-> DefaultBinStep,
                                     expectedAmountIn |-> amountIn,
                                     expectedAmountOut |-> amountOut,
                                     expectedFee |-> feeAmount,
                                     priceImpact |-> priceImpact] >>,
                        totalFee |-> feeAmount, estimatedGas |-> gasEstimate,
                        priceImpact |-> priceImpact, routeType |-> "direct"],
             isValid |-> (~IsNaNInt(amountOut) /\ ParseInt(amountOut) > 0),
             slippageTolerance |-> DefaultSlippage]
    ELSE createEmptyQuote

\* parseInt(q.amountOut) === 0
ZeroOutput(q) == ~IsNaNInt(q.amountOut) /\ ParseInt(q.amountOut) = 0

\* combineHops with the fee of the first hop dropped
combineHopsSecondFeeOnly(originalParams, firstHop, secondHop, intermediate) ==
    LET totalFee == secondHop.feeAmount
        totalPriceImpact == AddFloatStr(firstHop.priceImpact, secondHop.priceImpact)
        totalGas == AddIntStr(firstHop.gasEstimate, secondHop.gasEstimate)
    IN [amountOut |-> secondHop.amountOut, amountIn |-> originalParams.amountIn,
        priceImpact |-> totalPriceImpact, feeAmount |-> totalFee,
        gasEstimate |-> totalGas, poolId |-> "",
        route |-> [hops |-> firstHop.route.hops \o secondHop.route.hops,
                   totalFee |-> totalFee, estimatedGas |-> totalGas,
                   priceImpact |-> totalPriceImpact, routeType |-> "multi-hop"],
        isValid |-> TRUE,
        slippageTolerance |-> Max(firstHop.slippageTolerance, secondHop.slippageTolerance)]

\* combineHops with the hops in the wrong order
combineHopsReversed(originalParams, firstHop, secondHop, intermediate) ==
    LET totalFee == AddIntStr(firstHop.feeAmount, secondHop.feeAmount)
        totalPriceImpact == AddFloatStr(firstHop.priceImpact, secondHop.priceImpact)
        totalGas == AddIntStr(firstHop.gasEstimate, secondHop.gasEstimate)
    IN [amountOut |-> secondHop.amountOut, amountIn |-> originalParams.amountIn,
        priceImpact |-> totalPriceImpact, feeAmount |-> totalFee,
        gasEstimate |-> totalGas, poolId |-> "",
        route |-> [hops |-> secondHop.route.hops \o firstHop.route.hops,
                   totalFee |-> totalFee, estimatedGas |-> totalGas,
                   priceImpact |-> totalPriceImpact, routeType |-> "multi-hop"],
        isValid |-> TRUE,
        slippageTolerance |-> Max(firstHop.slippageTolerance, secondHop.slippageTolerance)]

\* combineHops with the second hop's hops left out of the route
combineHopsFirstHopsOnly(originalParams, firstHop, secondHop, intermediate) ==
    LET totalFee == AddIntStr(firstHop.feeAmount, secondHop.feeAmount)
        totalPriceImpact == AddFloatStr(firstHop.priceImpact, secondHop.priceImpact)
        totalGas == AddIntStr(firstHop.gasEstimate, secondHop.gasEstimate)
    IN [amountOut |-> secondHop.amountOut, amountIn |-> originalParams.amountIn,
        priceImpact |-> totalPriceImpact, feeAmount |-> totalFee,
        gasEstimate |-> totalGas, poolId |-> "",
        route |-> [hops |-> firstHop.route.hops,
                   totalFee |-> totalFee, estimatedGas |-> totalGas,
                   priceImpact |-> totalPriceImpact, routeType |-> "multi-hop"],
        isValid |-> TRUE,
        slippageTolerance |-> Max(firstHop.slippageTolerance, secondHop.slippageTolerance)]

\* combineHops: two hops as one multi-hop quote
combineHops(originalParams, firstHop, secondHop, intermediate) ==
    LET totalFee == AddIntStr(firstHop.feeAmount, secondHop.feeAmount)
        totalPriceImpact == AddFloatStr(firstHop.priceImpact, secondHop.priceImpact)
        totalGas == AddIntStr(firstHop.gasEstimate, secondHop.gasEstimate)
    IN [amountOut |-> secondHop.amountOut, amountIn |-> originalParams.amountIn,
        priceImpact |-> totalPriceImpact, feeAmount |-> totalFee,
        gasEstimate |-> totalGas, poolId |-> "",
        route |-> [hops |-> firstHop.route.hops \o secondHop.route.hops,
                   totalFee |-> totalFee, estimatedGas |-> totalGas,
                   priceImpact |-> totalPriceImpact, routeType |-> "multi-hop"],
        isValid |-> TRUE,
        slippageTolerance |-> Max(firstHop.slippageTolerance, secondHop.slippageTolerance)]

(***************************************************************************)
(* Route scoring and selection.                                            *)
(***************************************************************************)
\* calculateRouteScore is NaN when a field does not parse
ScoreIsNaN(q) ==
    \/ IsNaNInt(q.amountOut) \/ IsNaNInt(q.feeAmount)
    \/ IsNaNInt(q.gasEstimate) \/ IsNaNFloat(q.priceImpact)

\* calculateRouteScore, times 1000 to stay in the integers:
\* amountOut - (fees + gas * 0.001) - priceImpact * 1000
calculateRouteScore(q) ==
    1000 * ParseInt(q.amountOut)
        - (1000 * ParseInt(q.feeAmount) + ParseInt(q.gasEstimate))
        - 10000 * ParseFloat(q.priceImpact)

\* currentScore > bestScore, false when either is NaN
ScoreGreater(current, best) ==
    /\ ~ScoreIsNaN(current)
    /\ ~ScoreIsNaN(best)
    /\ calculateRouteScore(current) > calculateRouteScore(best)

\* the positions of the valid routes, in order: .filter(route => route.isValid)
RECURSIVE ValidPositions(_, _)
ValidPositions(routes, i) ==
    IF i > Len(routes) THEN <<>>
    ELSE (IF routes[i].isValid THEN <<i>> ELSE <<>>) \o ValidPositions(routes, i + 1)

\* the reduce of selectBestRoute with >= for >, which prefers the last of equals
RECURSIVE ReduceBestLastWins(_, _, _, _)
ReduceBestLastWins(routes, pos, best, k) ==
    IF k > Len(pos) THEN best
    ELSE ReduceBestLastWins(routes, pos,
                    IF ~ScoreGreater(routes[best], routes[pos[k]]) THEN pos[k] ELSE best,
                    k + 1)

\* allRoutes.reduce((best, current) => currentScore > bestScore ? current : best)
\* over the valid positions pos; best and the result are positions in routes
RECURSIVE ReduceBest(_, _, _, _)
ReduceBest(routes, pos, best, k) ==
    IF k > Len(pos) THEN best
    ELSE ReduceBest(routes, pos,
                    IF ScoreGreater(routes[pos[k]], routes[best]) THEN pos[k] ELSE best,
                    k + 1)

\* SelectBestIndex with the reduce preferring the last of equal scores
SelectBestIndexLastWins(routes) ==
    LET pos == ValidPositions(routes, 1)
    IN IF Len(pos) = 0 THEN 0 ELSE ReduceBestLastWins(routes, pos, pos[1], 2)

\* the position in routes of the route selectBestRoute returns, 0 for none
SelectBestIndex(routes) ==
    LET pos == ValidPositions(routes, 1)
    IN IF Len(pos) = 0 THEN 0 ELSE ReduceBest(routes, pos, pos[1], 2)

\* the candidate list selectBestRoute builds from a MultiRouteQuote
Candidates(multiRoute) ==
    multiRoute.directRoute \o multiRoute.singleHopRoutes \o multiRoute.multiHopRoutes

\* selectBestRoute
selectBestRoute(multiRoute) ==
    LET all == Candidates(multiRoute)
        i == SelectBestIndex(all)
    IN IF i = 0 THEN createEmptyQuote ELSE all[i]

\* parseInt(b.amountOut) - parseInt(a.amountOut) > 0: b goes before a
SortsBefore(b, a) ==
    /\ ~IsNaNInt(a.amountOut)
    /\ ~IsNaNInt(b.amountOut)
    /\ ParseInt(b.amountOut) > ParseInt(a.amountOut)

\* x put into the descending list t behind the elements it does not beat
InsertDesc(t, x) ==
    LET k == Cardinality({i \in 1 .. Len(t) : ~SortsBefore(x, t[i])})
    IN SubSeq(t, 1, k) \o <<x>> \o SubSeq(t, k + 1, Len(t))

\* .sort((a, b) => parseInt(b.amountOut) - parseInt(a.amountOut)), stable
RECURSIVE SortDesc(_)
SortDesc(s) ==
    IF Len(s) = 0 THEN <<>>
    ELSE InsertDesc(SortDesc(SubSeq(s, 1, Len(s) - 1)), s[Len(s)])

\* s without its element at position i (all of s when i = 0)
RemoveAt(s, i) ==
    IF i = 0 THEN s ELSE SubSeq(s, 1, i - 1) \o SubSeq(s, i + 1, Len(s))

(***************************************************************************)
(* Slippage and gas.                                                       *)
(***************************************************************************)
\* calculateOptimalSlippage with Math.floor in the place of Math.round
calculateOptimalSlippageFloored(quote) ==
    LET h == ParseFloat(quote.priceImpact)
        tolerance10 ==
            IF ~IsNaNFloat(quote.priceImpact) /\ h > 100
            THEN Min(10 * baseSlippage + h, 10 * MaxAutoSlippage)
            ELSE 10 * baseSlippage
    IN [tolerance |-> tolerance10 \div 10, autoSlippage |-> TRUE,
        maxSlippage |-> maxSlippage]

\* calculateOptimalSlippage; priceImpact is in hundredths, so
\* baseSlippage + priceImpact * 10 is (10 * baseSlippage + h) / 10, and
\* Math.round rounds its half up
calculateOptimalSlippage(quote) ==
    LET h == ParseFloat(quote.priceImpact)
        tolerance10 ==
            IF ~IsNaNFloat(quote.priceImpact) /\ h > 100
            THEN Min(10 * baseSlippage + h, 10 * MaxAutoSlippage)
            ELSE 10 * baseSlippage
    IN [tolerance |-> (tolerance10 + 5) \div 10, autoSlippage |-> TRUE,
        maxSlippage |-> maxSlippage]

\* estimateGasForRoute
estimateGasForRoute(route) == ToStr(baseGas + Len(route.hops) * gasPerHop)

\* enhanceQuote; !enhanced.gasEstimate is true of the empty string only
enhanceQuote(quote, slippageTolerance, includeGasEstimate) ==
    LET enhanced ==
            [quote EXCEPT !.slippageTolerance =
                Max(slippageTolerance, calculateOptimalSlippage(quote).tolerance)]
    IN IF includeGasEstimate /\ enhanced.gasEstimate = ""
       THEN [enhanced EXCEPT !.gasEstimate = estimateGasForRoute(enhanced.route)]
       ELSE enhanced

(***************************************************************************)
(* Analysis of a quote.                                                    *)
(***************************************************************************)
\* analyzePriceImpact with its thresholds taken inclusively
analyzePriceImpactInclusive(quote) ==
    LET h == ParseFloat(quote.priceImpact)
        isNaN == IsNaNFloat(quote.priceImpact)
        level == IF ~isNaN /\ h <= 10 THEN "low"
                 ELSE IF ~isNaN /\ h <= 100 THEN "medium"
                 ELSE IF ~isNaN /\ h <= 500 THEN "high"
                 ELSE "extreme"
    IN [level |-> level, percentage |-> quote.priceImpact, shouldWarn |-> level # "low"]

\* analyzePriceImpact; priceImpact is in hundredths, and every comparison
\* with NaN is false, which leaves the last branch
analyzePriceImpact(quote) ==
    LET h == ParseFloat(quote.priceImpact)
        isNaN == IsNaNFloat(quote.priceImpact)
    IN IF ~isNaN /\ h < 10
       THEN [level |-> "low", percentage |-> quote.priceImpact, shouldWarn |-> FALSE]
       ELSE IF ~isNaN /\ h < 100
       THEN [level |-> "medium", percentage |-> quote.priceImpact, shouldWarn |-> TRUE]
       ELSE IF ~isNaN /\ h < 500
       THEN [level |-> "high", percentage |-> quote.priceImpact, shouldWarn |-> TRUE]
       ELSE [level |-> "extreme", percentage |-> quote.priceImpact, shouldWarn |-> TRUE]

\* the checks of simulateSwap with the ceiling on price impact taken inclusively
simulateSwapChecksInclusive(quote) ==
    LET noRoute == ~quote.isValid
        zero == ~IsNaNInt(quote.amountOut) /\ ParseInt(quote.amountOut) = 0
        high == ~IsNaNFloat(quote.priceImpact) /\ ParseFloat(quote.priceImpact) >= 500
        tooHigh == ~IsNaNFloat(quote.priceImpact) /\ ParseFloat(quote.priceImpact) >= 1500
    IN [canExecute |-> ~(noRoute \/ zero \/ tooHigh),
        quote |-> quote,
        warnings |-> IF high THEN <<"High price impact detected">> ELSE <<>>,
        errors |-> (IF noRoute THEN <<"No valid route found">> ELSE <<>>)
                     \o (IF zero THEN <<"Output amount would be zero">> ELSE <<>>)
                     \o (IF tooHigh THEN <<"Price impact too high - trade may fail">>
                         ELSE <<>>)]

\* simulateSwap once getBestQuote resolved with quote: the checks and the
\* result; priceImpact is in hundredths
simulateSwapChecks(quote) ==
    LET noRoute == ~quote.isValid
        zero == ~IsNaNInt(quote.amountOut) /\ ParseInt(quote.amountOut) = 0
        high == ~IsNaNFloat(quote.priceImpact) /\ ParseFloat(quote.priceImpact) > 500
        tooHigh == ~IsNaNFloat(quote.priceImpact) /\ ParseFloat(quote.priceImpact) > 1500
    IN [canExecute |-> ~(noRoute \/ zero \/ tooHigh),
        quote |-> quote,
        warnings |-> IF high THEN <<"High price impact detected">> ELSE <<>>,
        errors |-> (IF noRoute THEN <<"No valid route found">> ELSE <<>>)
                     \o (IF zero THEN <<"Output amount would be zero">> ELSE <<>>)
                     \o (IF tooHigh THEN <<"Price impact too high - trade may fail">>
                         ELSE <<>>)]

(***************************************************************************)
(* Double-precision arithmetic, as far as calculateMinimumOutput uses it.  *)
(* A non-negative double is mant * 2^(-exp): mant is a sequence of at most *)
(* 53 bits, the most significant first.                                    *)
(***************************************************************************)
SignificandBits == 53
BpsDenominator == 10000

Front(s) == SubSeq(s, 1, Len(s) - 1)
Last(s) == s[Len(s)]

\* the binary digits of a natural number, <<>> for 0, and back
RECURSIVE BitsOf(_)
BitsOf(n) == IF n = 0 THEN <<>> ELSE Append(BitsOf(n \div 2), n % 2)

RECURSIVE NatOf(_)
NatOf(bits) == IF bits = <<>> THEN 0 ELSE 2 * NatOf(Front(bits)) + Last(bits)

RECURSIVE StripZeros(_)
StripZeros(bits) ==
    IF bits # <<>> /\ bits[1] = 0 THEN StripZeros(Tail(bits)) ELSE bits

RECURSIVE Increment(_)
Increment(bits) ==
    IF bits = <<>> THEN <<1>>
    ELSE IF Last(bits) = 0 THEN Append(Front(bits), 1)
    ELSE Append(Increment(Front(bits)), 0)

\* bits times the natural number a, exactly
RECURSIVE TimesBits(_, _, _)
TimesBits(bits, a, carry) ==
    IF bits = <<>> THEN BitsOf(carry)
    ELSE IF (a * Last(bits) + carry) % 2 = 1
    THEN Append(TimesBits(Front(bits), a, (a * Last(bits) + carry) \div 2), 1)
    ELSE Append(TimesBits(Front(bits), a, (a * Last(bits) + carry) \div 2), 0)

\* the first n binary digits of the fraction r / den, for r < den
RECURSIVE FractionBits(_, _, _)
FractionBits(r, den, n) ==
    IF n = 0 THEN <<>>
    ELSE <<(2 * r) \div den>> \o FractionBits((2 * r) % den, den, n - 1)

\* what is left of r / den below those n digits
RECURSIVE FractionRest(_, _, _)
FractionRest(r, den, n) ==
    IF n = 0 \/ r = 0 THEN r ELSE FractionRest((2 * r) % den, den, n - 1)

\* Round to nearest, ties to even: the exact value is bits (no leading zero)
\* followed by something non-zero below exactly when sticky.  The result is
\* mant * 2^shift.
RoundToDouble(bits, sticky) ==
    IF Len(bits) <= SignificandBits
    THEN [mant |-> bits, shift |-> 0]
    ELSE LET kept == SubSeq(bits, 1, SignificandBits)
             guard == bits[SignificandBits + 1]
             rest == sticky \/ \E i \in (SignificandBits + 2) .. Len(bits) : bits[i] = 1
             up == guard = 1 /\ (rest \/ Last(kept) = 1)
         IN [mant |-> IF up THEN Increment(kept) ELSE kept,
             shift |-> Len(bits) - SignificandBits]

\* enough fraction digits for a quotient of at least 1 / 2^14
FractionDigits == SignificandBits + 15

\* the double num / den
DivideDouble(num, den) ==
    LET exact == StripZeros(BitsOf(num \div den)
                            \o FractionBits(num % den, den, FractionDigits))
        r == RoundToDouble(exact, FractionRest(num % den, den, FractionDigits) # 0)
    IN [mant |-> r.mant, exp |-> FractionDigits - r.shift]

\* the double a * d, for a natural number a
TimesDouble(a, d) ==
    LET r == RoundToDouble(StripZeros(TimesBits(d.mant, a, 0)), FALSE)
    IN [mant |-> r.mant, exp |-> d.exp - r.shift]

\* Math.floor of a double that has an integer part below 2^31
FloorDouble(d) ==
    IF Len(d.mant) <= d.exp THEN 0 ELSE NatOf(SubSeq(d.mant, 1, Len(d.mant) - d.exp))

\* calculateMinimumOutput with the slippage added instead of taken off
calculateMinimumOutputAdded(quote, slippageBps) ==
    IF IsNaNInt(quote.amountOut) THEN "NaN"
    ELSE ToStr(FloorDouble(TimesDouble(ParseInt(quote.amountOut),
                                       DivideDouble(BpsDenominator + slippageBps,
                                                    BpsDenominator))))

\* calculateMinimumOutput, for 0 <= slippageBps <= 10000
calculateMinimumOutput(quote, slippageBps) ==
    IF IsNaNInt(quote.amountOut) THEN "NaN"
    ELSE ToStr(FloorDouble(TimesDouble(ParseInt(quote.amountOut),
                                       DivideDouble(BpsDenominator - slippageBps,
                                                    BpsDenominator))))

(***************************************************************************)
(* Bin prices.  Math.pow and Math.log are implementation-approximated, so  *)
(* the power is not computed to the bit: it is enclosed between a lower    *)
(* and an upper bound, each a 15-bit significand m and an exponent e      *)
(* standing for m * 2^e, rounded downwards and upwards.  The enclosure     *)
(* decides whether the double overflows to Infinity, underflows to 0 or is *)
(* a finite number; where it cannot decide, every outcome it leaves open   *)
(* is taken.                                                               *)
(***************************************************************************)
\* the smallest significand of a bound; the largest is below twice it
SignificandUnit == 2^14

\* doubles reach up to, and not including, 2^MaxExponent
MaxExponent == 1024

\* the smallest double above 0 is 2^MinExponent; below half of it is 0
MinExponent == -1074

\* Math.pow(2, 64) is 2^PriceScaleBits
PriceScaleBits == 64

RECURSIVE NormDown(_, _)
NormDown(m, e) ==
    IF m >= 2 * SignificandUnit THEN NormDown(m \div 2, e + 1)
    ELSE IF m < SignificandUnit THEN NormDown(2 * m, e - 1)
    ELSE [m |-> m, e |-> e]

RECURSIVE NormUp(_, _)
NormUp(m, e) ==
    IF m >= 2 * SignificandUnit THEN NormUp((m + 1) \div 2, e + 1)
    ELSE IF m < SignificandUnit THEN NormUp(2 * m, e - 1)
    ELSE [m |-> m, e |-> e]

\* 1 + binStep / 10000, from below and from above
BaseDown(binStep) ==
    NormDown(((BpsDenominator + binStep) * SignificandUnit) \div BpsDenominator, -14)

BaseUp(binStep) ==
    NormUp(((BpsDenominator + binStep) * SignificandUnit + BpsDenominator - 1)
               \div BpsDenominator, -14)

\* base^n for n >= 0 from below, by squaring
RECURSIVE PowDown(_, _)
PowDown(base, n) ==
    IF n = 0 THEN [m |-> SignificandUnit, e |-> -14]
    ELSE LET half == PowDown(base, n \div 2)
             square == NormDown(half.m * half.m, half.e + half.e)
         IN IF n % 2 = 1 THEN NormDown(square.m * base.m, square.e + base.e)
            ELSE square

\* base^n for n >= 0 from above
RECURSIVE PowUp(_, _)
PowUp(base, n) ==
    IF n = 0 THEN [m |-> SignificandUnit, e |-> -14]
    ELSE LET half == PowUp(base, n \div 2)
             square == NormUp(half.m * half.m, half.e + half.e)
         IN IF n % 2 = 1 THEN NormUp(square.m * base.m, square.e + base.e)
            ELSE square

\* Math.pow(base, binId) is at least 2^PowExponentLow and below
\* 2^PowExponentHigh; a negative binId is the reciprocal of the positive one
PowExponentLow(binId, binStep) ==
    IF binId >= 0 THEN PowDown(BaseDown(binStep), binId).e + 14
    ELSE -(PowUp(BaseUp(binStep), -binId).e + 15)

PowExponentHigh(binId, binStep) ==
    IF binId >= 0 THEN PowUp(BaseUp(binStep), binId).e + 15
    ELSE -(PowDown(BaseDown(binStep), -binId).e + 14)

\* a price string: "Infinity", "0", or the digits of a finite double, which
\* are denoted by the bin and the step the double was computed from
Price(value, binId, binStep) == [value |-> value, binId |-> binId, binStep |-> binStep]

\* calculateBinPrice: (Math.pow(base, binId) * Math.pow(2, 64)).toString(),
\* every value the enclosure leaves open.  Nothing in it raises.
calculateBinPrice(binId, binStep) ==
    LET low == PowExponentLow(binId, binStep)
        high == PowExponentHigh(binId, binStep)
    IN (IF high > MaxExponent - PriceScaleBits
        THEN {Price("Infinity", binId, binStep)} ELSE {})
       \cup (IF low < MinExponent
             THEN {Price("0", binId, binStep)} ELSE {})
       \cup (IF low < MaxExponent - PriceScaleBits /\ high > MinExponent - 1
             THEN {Price("double", binId, binStep)} ELSE {})

\* what getBinIdFromPrice returns: a number, or Infinity, -Infinity or NaN
BinNumber(kind, n) == [kind |-> kind, n |-> n]

\* getBinIdFromPrice: Math.round(Math.log(priceNum) / Math.log(base)).
\* Math.log is Infinity of Infinity and -Infinity of 0, and the sign of the
\* quotient is that of Math.log(base); 0 / 0 is NaN when the base is 1.  On a
\* finite price computed with the same step, the errors of pow and log (one
\* part in 2^52 each, on a logarithm below 2^10 divided by one above 2^-14)
\* stay far below the half that Math.round forgives.
getBinIdFromPrice(price, binStep) ==
    IF price.value = "Infinity"
    THEN BinNumber(IF binStep >= 0 THEN "Infinity" ELSE "-Infinity", 0)
    ELSE IF price.value = "0"
    THEN BinNumber(IF binStep >= 0 THEN "-Infinity" ELSE "Infinity", 0)
    ELSE IF binStep = 0 THEN BinNumber("NaN", 0)
    ELSE BinNumber("number", price.binId)

(***************************************************************************)
(* The quote cache: a Map from key to {quote, timestamp}.                  *)
(***************************************************************************)
EmptyCache == [k \in {} |-> createEmptyQuote]

\* getCacheKey without the amount
getCacheKeyTokens(params) == params.tokenIn \o "-" \o params.tokenOut

\* getCacheKey
getCacheKey(params) ==
    params.tokenIn \o "-" \o params.tokenOut \o "-" \o params.amountIn

\* getCachedQuote that passes over an entry whose quote is invalid
getCachedQuoteValidOnly(cache, key, t) ==
    IF key \in DOMAIN cache /\ t - cache[key].timestamp < CACHE_TTL
          /\ cache[key].quote.isValid
    THEN <<cache[key].quote>>
    ELSE <<>>

\* getCachedQuote with <= for <
getCachedQuoteInclusive(cache, key, t) ==
    IF key \in DOMAIN cache /\ t - cache[key].timestamp <= CACHE_TTL
    THEN <<cache[key].quote>>
    ELSE <<>>

\* getCachedQuote at Date.now() = t: <<quote>> for a hit, <<>> for null
getCachedQuote(cache, key, t) ==
    IF key \in DOMAIN cache /\ t - cache[key].timestamp < CACHE_TTL
    THEN <<cache[key].quote>>
    ELSE <<>>

\* cacheQuote that keeps the timestamp of the entry it finds
cacheQuoteMerged(cache, key, quote, t) ==
    [k \in (DOMAIN cache) \cup {key} |->
        IF k = key
        THEN [quote |-> quote,
              timestamp |-> IF key \in DOMAIN cache THEN cache[key].timestamp ELSE t]
        ELSE cache[k]]

\* cacheQuote that stores nothing
cacheQuoteDropped(cache, key, quote, t) == cache

\* cacheQuote at Date.now() = t: the Map after set
cacheQuote(cache, key, quote, t) ==
    [k \in (DOMAIN cache) \cup {key} |->
        IF k = key THEN [quote |-> quote, timestamp |-> t] ELSE cache[k]]

(***************************************************************************)
(* The position cache of PositionManager: a Map from a position's id to    *)
(* the position, and the timeouts cachePosition has set and that have not  *)
(* fired, oldest first.  All timeouts have the same delay, so they fire in *)
(* the order they were set.  An entry carries the time it was cached at,   *)
(* which the Map of the code does not hold; nothing in the model reads it  *)
(* but the properties.                                                     *)
(***************************************************************************)
EmptyPositions == [k \in {} |-> [position |-> [id |-> "", data |-> ""], cachedAt |-> 0]]

\* parsePositionFromResponse: the position of a moveObject response
Position(id, data) == [id |-> id, data |-> data]

\* getCachedPosition: <<position>> for a hit, <<>> for null
getCachedPosition(cache, positionId) ==
    IF positionId \in DOMAIN cache THEN <<cache[positionId].position>> ELSE <<>>

\* cachePosition at Date.now() = t: the Map after set
cachePosition(cache, position, t) ==
    [k \in (DOMAIN cache) \cup {position.id} |->
        IF k = position.id THEN [position |-> position, cachedAt |-> t] ELSE cache[k]]

\* cachePosition at Date.now() = t: the timeouts after setTimeout
cachePositionTimer(pendingTimers, position, t) ==
    Append(pendingTimers, [id |-> position.id, due |-> t + PositionCacheTTL])

\* this.positionCache.delete(id)
deletePosition(cache, id) == [k \in (DOMAIN cache) \ {id} |-> cache[k]]

(***************************************************************************)
(* Inputs.                                                                 *)
(***************************************************************************)
Calls == {"c1", "c2"}

Params(tokenIn, tokenOut, amountIn) ==
    [tokenIn |-> tokenIn, tokenOut |-> tokenOut, amountIn |-> amountIn]

\* the requests callers make of getBestQuote and DLMMClient.getQuote
FlowRequests ==
    {Params("A", "B", ToStr(MaxAmount)), Params("A", "B", "0"),
     Params("A", "USDC", ToStr(MaxAmount))}

\* the requests callers make of the enumerator directly
RouteRequests ==
    {Params(i, o, a) : i \in Tokens, o \in Tokens \ {"A"}, a \in {"0", ToStr(MaxAmount)}}

MaxHopsOptions == {1, DefaultMaxHops}
SlippageOptions == {DefaultSlippage, 2 * DefaultSlippage}

PositiveAmounts == {ToStr(n) : n \in 1 .. MaxAmount}

\* requests whose token names hold the separator of the cache key
HyphenRequests ==
    {Params("A-B", "C", ToStr(MaxAmount)), Params("A", "B-C", ToStr(MaxAmount))}

\* the token names without a "-" in them
PlainTokens == {"A", "B", "C", "USDC"}

\* the gateway's answers on the request flow: it throws, it has no return
\* values, it quotes no output, or it quotes an output
FlowReplies ==
    {ReplyThrow, ReplyNoReturnValues}
        \cup {Reply("values", <<a, "0.5", "1", Undefined>>) : a \in {"0", ToStr(MaxAmount)}}

\* the gateway's answers to the getBestQuote calls of getQuoteComparison: those
\* of the request flow, and an output of 1
CompareReplies ==
    FlowReplies \cup {Reply("values", <<"1", "0.5", "1", Undefined>>)}

\* the gateway's answers to the enumerator: every position present or not
WideReplies ==
    {ReplyThrow, ReplyUndefined, ReplyNoReturnValues}
        \cup {Reply("values", <<a, p, f, g>>) :
                a \in {Undefined, "0", "abc"} \cup PositiveAmounts,
                p \in {Undefined, "0.5"},
                f \in {Undefined, "1"},
                g \in {Undefined, "0"}}

\* the gateway's answers around the thresholds of simulateSwap: price impacts
\* of 5, 6, 15 and 20 percent
ImpactReplies ==
    {ReplyThrow}
        \cup {Reply("values", <<a, p, "1", Undefined>>) :
                a \in {"0", ToStr(MaxAmount)}, p \in {"5", "6", "15", "20"}}

\* the answers tried on an invocation of the method op
ReplyOptions(op) ==
    IF op = "simulateSwap" THEN ImpactReplies
    ELSE IF op = "getDetailedQuote" THEN FlowReplies
    ELSE WideReplies

\* the quotes handed to calculateMinimumOutput: the empty quote, and what the
\* resolver makes of outputs of 0, 1, 2, half the largest, 90 and the largest
OutputSamples == {0, 1, 2, MaxOutput \div 2, 90, MaxOutput}

OutputQuotes ==
    {createEmptyQuote}
        \cup {parseContractQuoteResult(Reply("values", <<ToStr(n), "0.5", "1", Undefined>>),
                                        "A", "B", ToStr(n)) : n \in OutputSamples}

\* the slippage tolerances in basis points handed to it
SlippageBpsOptions == {0, 1, 50, 100, 3000, 4200, 7100, 10000}

\* the price impacts of the quotes handed to analyzePriceImpact: below, at and
\* above each threshold
ImpactSamples == {"0", "0.05", "0.1", "0.95", "1", "2.5", "4.95", "5", "20"}

\* the quotes handed to analyzePriceImpact
ImpactQuotes ==
    {[createEmptyQuote EXCEPT !.priceImpact = p] : p \in ImpactSamples}

\* the price impacts of the quotes handed to calculateOptimalSlippage: around
\* 1 percent, between two tenths, around the 45 percent at which the
\* tolerance reaches its ceiling, and one that is no number
SlippageSamples ==
    {"0", "0.5", "1", "1.05", "1.1", "1.15", "2", "10", "44.95", "45", "45.05",
     "50", "abc"}

\* the quotes handed to calculateOptimalSlippage
SlippageQuotes ==
    {[createEmptyQuote EXCEPT !.priceImpact = p] : p \in SlippageSamples}

\* the bin ids handed to calculateBinPrice: the ends of the range, and ids
\* around 0
BinIds == {-MaxBinId, -1000, -1, 0, 1, 1000, MaxBinId}

\* the allowed bin steps
BinSteps == {1, 5, 10, 25, 50, 100, 200, 500, 1000}

\* bin steps that are not positive
NonPositiveBinSteps == {0, -1}

\* the params handed to getQuoteWithRetry: <<>> for none, <<params>> otherwise
RetryRequests == {<<>>} \cup {<<p>> : p \in FlowRequests}

\* the maxRetries handed to getQuoteWithRetry; the default is 3
RetryOptions == {0, 1, 2, 3}

\* the ids asked of getPosition
PositionIds == {"p1", "p2"}

\* what suiClient.getObject answers: it throws, it has no moveObject content,
\* or it has the position in one of two states
ObjectReplies ==
    {[kind |-> "throw", data |-> ""], [kind |-> "none", data |-> ""],
     [kind |-> "moveObject", data |-> "v1"], [kind |-> "moveObject", data |-> "v2"]}

\* the amounts lists handed to getQuoteComparison
AmountLists ==
    {<<ToStr(MaxAmount)>>, <<"0", ToStr(MaxAmount)>>, <<ToStr(MaxAmount), "0">>,
     <<ToStr(MaxAmount), ToStr(MaxAmount)>>}

\* the quotes a caller hands to selectBestRoute: what the resolver made of
\* some answers, and the empty quote
SampleQuotes ==
    {createEmptyQuote}
        \cup {parseContractQuoteResult(Reply("values", <<a, p, f, "0">>), "A", "B", "1") :
                a \in {"0"} \cup PositiveAmounts,
                p \in {Undefined, "0.5"},
                f \in {Undefined, "1"}}

\* the MultiRouteQuote arguments of selectBestRoute: up to three candidates
SampleMultiRoutes ==
    {[directRoute |-> d, singleHopRoutes |-> s, multiHopRoutes |-> m] :
        d \in {<<>>} \cup {<<q>> : q \in SampleQuotes},
        s \in {<<>>} \cup {<<q>> : q \in SampleQuotes},
        m \in {<<>>} \cup {<<q>> : q \in SampleQuotes}}

(***************************************************************************)
(* One invocation of a public method.                                      *)
(***************************************************************************)
IdleCall ==
    [pc |-> "idle", op |-> "", params |-> Params("", "", ""),
     maxHops |-> 0, slippageTolerance |-> 0, includeGasEstimate |-> FALSE,
     sawExpired |-> FALSE,  \* the cache lookup found an entry past its TTL
     pending |-> <<>>,      \* the gateway call awaited
     gwLog |-> <<>>,        \* the gateway calls issued so far
     reply |-> <<>>,        \* getContractQuote by itself: the gateway's answer
     answers |-> <<>>,      \* what each call of gwLog got: threw, unusable, usable
     input |-> <<>>,        \* selectBestRoute by itself: its argument
     directRoute |-> <<>>,  \* results.directRoute, when set
     idx |-> 0,             \* position in the intermediates
     firstHop |-> <<>>,     \* firstHopQuote of the intermediate at idx
     routes |-> <<>>,       \* routes of getSingleHopQuotes
     lastCombine |-> <<>>,  \* the last combineHops: its two hops and its result
     hopQuotes |-> <<>>,    \* <<list>> once getSingleHopQuotes returned
     multiRoute |-> <<>>,   \* <<results>> once getMultiRouteQuotes returned
     best |-> <<>>,         \* <<quote>> once the getBestQuote of the method resolved
     attempts |-> 0,        \* getQuoteWithRetry: the getBestQuote calls made so far
     waits |-> <<>>,        \* getQuoteWithRetry: the timeouts set so far
     ret |-> <<>>,          \* <<value>> once the method returned
     raised |-> FALSE]      \* the method threw

GatewayCall(tokenIn, tokenOut, amountIn) ==
    [tokenIn |-> tokenIn, tokenOut |-> tokenOut, amountIn |-> amountIn]

\* getContractQuote up to its await: the call is built and sent
Issue(rec, pc, call) ==
    [rec EXCEPT !.pc = pc, !.pending = <<call>>, !.gwLog = Append(@, call)]

\* a rethrow through the catch blocks up to the caller
Raise(rec) == [rec EXCEPT !.pc = "done", !.pending = <<>>, !.raised = TRUE]

\* getContractQuote after its await, when the gateway did not throw: the
\* answer r to the pending call of rec, parsed
Quoted(rec, r) ==
    parseContractQuoteResult(r, rec.pending[1].tokenIn, rec.pending[1].tokenOut,
                             rec.pending[1].amountIn)

\* The gateway's answer as the caller of the gateway sees it: a transport
\* failure, a response with a positive amountOut, or anything else
Classify(r) ==
    IF r.kind = "throw" THEN "threw"
    ELSE IF r.kind = "values" /\ r.vals[1] \in PositiveAmounts THEN "usable"
    ELSE "unusable"

\* rec with its pending call answered by r
Answered(rec, r) ==
    [rec EXCEPT !.pending = <<>>, !.answers = Append(@, Classify(r))]

\* getMultiRouteQuotes, step 4 and return, with the direct quote put after
\* the single-hop quotes
MultiRouteResultsDirectLast(rec, singleHopQuotes) ==
    LET singleHopRoutes == singleHopQuotes \o rec.directRoute
        allRoutes == singleHopRoutes \o <<>>
        best == SelectBestIndex(allRoutes)
    IN [directRoute |-> rec.directRoute,
        singleHopRoutes |-> singleHopRoutes,
        multiHopRoutes |-> <<>>,
        bestRoute |-> IF Len(allRoutes) > 0
                      THEN selectBestRoute([directRoute |-> <<>>,
                                            singleHopRoutes |-> allRoutes,
                                            multiHopRoutes |-> <<>>])
                      ELSE createEmptyQuote,
        alternativeRoutes |-> IF Len(allRoutes) > 0
                              THEN SortDesc(RemoveAt(allRoutes, best))
                              ELSE <<>>]

\* getMultiRouteQuotes, step 4 and return
MultiRouteResults(rec, singleHopQuotes) ==
    LET singleHopRoutes == rec.directRoute \o singleHopQuotes
        allRoutes == singleHopRoutes \o <<>>
        best == SelectBestIndex(allRoutes)
    IN [directRoute |-> rec.directRoute,
        singleHopRoutes |-> singleHopRoutes,
        multiHopRoutes |-> <<>>,
        bestRoute |-> IF Len(allRoutes) > 0
                      THEN selectBestRoute([directRoute |-> <<>>,
                                            singleHopRoutes |-> allRoutes,
                                            multiHopRoutes |-> <<>>])
                      ELSE createEmptyQuote,
        alternativeRoutes |-> IF Len(allRoutes) > 0
                              THEN SortDesc(RemoveAt(allRoutes, best))
                              ELSE <<>>]

\* getBestQuote after getMultiRouteQuotes resolved: select and enhance
BestQuoteOf(rec, multiRoute) ==
    enhanceQuote(selectBestRoute(multiRoute), rec.slippageTolerance,
                 rec.includeGasEstimate)

\* getDetailedQuote once its own getMultiRouteQuotes resolved with results
DetailedQuoteOf(rec, results) ==
    [quote |-> rec.best[1],
     priceImpactAnalysis |-> analyzePriceImpact(rec.best[1]),
     slippageRecommendation |-> calculateOptimalSlippage(rec.best[1]),
     alternativeRoutes |-> results.alternativeRoutes]

\* the caller of getBestQuote once it resolved with quote: getBestQuote and
\* DLMMClient.getQuote return it, simulateSwap checks it, and getDetailedQuote
\* goes on to its own getMultiRouteQuotes(params), up to the await in it
AfterBestQuote(rec, quote) ==
    LET got == [rec EXCEPT !.best = <<quote>>, !.pending = <<>>]
    IN IF rec.op = "simulateSwap"
       THEN [got EXCEPT !.pc = "done", !.ret = <<simulateSwapChecks(quote)>>]
       ELSE IF rec.op = "getDetailedQuote"
       THEN Issue([got EXCEPT !.maxHops = DefaultMaxHops, !.directRoute = <<>>,
                              !.idx = 0, !.firstHop = <<>>, !.routes = <<>>,
                              !.hopQuotes = <<>>, !.multiRoute = <<>>,
                              !.lastCombine = <<>>],
                  "direct",
                  GatewayCall(rec.params.tokenIn, rec.params.tokenOut,
                              rec.params.amountIn))
       ELSE IF rec.op = "getQuoteComparison"
       THEN [got EXCEPT !.pc = "all"]
       ELSE [got EXCEPT !.pc = "done", !.ret = <<quote>>]

\* the rest of the invocation once getMultiRouteQuotes has its single-hop
\* quotes (<<>> when maxHops < 2): no gateway call is left to await
FinishMulti(rec, singleHopQuotes) ==
    LET results == MultiRouteResults(rec, singleHopQuotes)
        done == [rec EXCEPT !.pc = "done", !.multiRoute = <<results>>]
    IN IF rec.op = "getMultiRouteQuotes"
       THEN [done EXCEPT !.ret = <<results>>]
       ELSE IF rec.op = "getDetailedQuote" /\ Len(rec.best) = 1
       THEN [done EXCEPT !.ret = <<DetailedQuoteOf(rec, results)>>]
       ELSE AfterBestQuote([rec EXCEPT !.multiRoute = <<results>>],
                           BestQuoteOf(rec, results))

\* getSingleHopQuotes returns: sort, then back in the caller
FinishSingleHop(rec) ==
    LET sorted == SortDesc(rec.routes)
        back == [rec EXCEPT !.hopQuotes = <<sorted>>, !.firstHop = <<>>]
    IN IF rec.op = "getSingleHopQuotes"
       THEN [back EXCEPT !.pc = "done", !.ret = <<sorted>>]
       ELSE FinishMulti(back, sorted)

\* the intermediates at positions >= i that are neither tokenIn nor tokenOut
Eligible(rec, i) ==
    {j \in i .. Len(getCommonIntermediateTokens) :
        /\ getCommonIntermediateTokens[j] # rec.params.tokenIn
        /\ getCommonIntermediateTokens[j] # rec.params.tokenOut}

\* the for loop of getSingleHopQuotes from position i on, up to its next await
LoopFrom(rec, i) ==
    IF Eligible(rec, i) = {}
    THEN FinishSingleHop(rec)
    ELSE LET j == CHOOSE j \in Eligible(rec, i) : \A k \in Eligible(rec, i) : j <= k
         IN Issue([rec EXCEPT !.idx = j, !.firstHop = <<>>], "hop1",
                  GatewayCall(rec.params.tokenIn, getCommonIntermediateTokens[j],
                              rec.params.amountIn))

\* getMultiRouteQuotes after the direct route: step 2 when maxHops >= 2
AfterDirect(rec) ==
    IF rec.maxHops >= 2 THEN LoopFrom(rec, 1) ELSE FinishMulti(rec, <<>>)

(***************************************************************************)
(* The code between two awaits, as a function of the invocation.           *)
(***************************************************************************)
\* getBestQuote up to its first await: the cache lookup, then either the
\* cached quote or the direct route's gateway call
StartBestQuote(op, params, maxHops, slippageTolerance, includeGasEstimate, cache, t) ==
    LET rec == [IdleCall EXCEPT !.op = op, !.params = params, !.maxHops = maxHops,
                                !.slippageTolerance = slippageTolerance,
                                !.includeGasEstimate = includeGasEstimate,
                                !.sawExpired =
                                    /\ getCacheKey(params) \in DOMAIN cache
                                    /\ t - cache[getCacheKey(params)].timestamp >= CACHE_TTL]
        cached == getCachedQuote(cache, getCacheKey(params), t)
    IN IF Len(cached) > 0
       THEN AfterBestQuote(rec, cached[1])
       ELSE Issue(rec, "direct",
                  GatewayCall(params.tokenIn, params.tokenOut, params.amountIn))

\* getMultiRouteQuotes called by itself, up to its first await
StartMultiRoute(params, maxHops) ==
    Issue([IdleCall EXCEPT !.op = "getMultiRouteQuotes", !.params = params,
                           !.maxHops = maxHops],
          "direct", GatewayCall(params.tokenIn, params.tokenOut, params.amountIn))

\* getContractQuote called by itself, up to its await
StartContractQuote(tokenIn, tokenOut, amountIn) ==
    Issue([IdleCall EXCEPT !.op = "getContractQuote",
                           !.params = Params(tokenIn, tokenOut, amountIn)],
          "quote", GatewayCall(tokenIn, tokenOut, amountIn))

\* getContractQuote called by itself, after its await: the parsed quote, or
\* the rethrow of its catch
ContractQuoteAnswered(rec, r) ==
    LET a == [Answered(rec, r) EXCEPT !.reply = <<r>>]
    IN IF r.kind = "throw"
       THEN Raise(a)
       ELSE [a EXCEPT !.pc = "done", !.ret = <<Quoted(rec, r)>>]

\* getSingleHopQuotes called by itself, up to its first await
StartSingleHop(params) ==
    LoopFrom([IdleCall EXCEPT !.op = "getSingleHopQuotes", !.params = params], 1)

\* getMultiRouteQuotes step 1 with the try/catch around the direct route left out
DirectAnsweredNoCatch(rec, r) ==
    LET a == Answered(rec, r)
        q == Quoted(rec, r)
    IN IF r.kind = "throw"
       THEN Raise(a)
       ELSE IF q.isValid
            THEN AfterDirect([a EXCEPT !.directRoute = <<q>>])
            ELSE AfterDirect(a)

\* getMultiRouteQuotes step 1 with a valid direct quote not kept
DirectAnsweredDropped(rec, r) == AfterDirect(Answered(rec, r))

\* getMultiRouteQuotes step 1 once the direct route's gateway call is answered
DirectAnswered(rec, r) ==
    LET a == Answered(rec, r)
        q == Quoted(rec, r)
    IN IF r.kind = "throw"
       THEN AfterDirect(a)
       ELSE IF q.isValid
            THEN AfterDirect([a EXCEPT !.directRoute = <<q>>])
            ELSE AfterDirect(a)

\* the loop body of getSingleHopQuotes with the try/catch left out
FirstHopAnsweredNoCatch(rec, r) ==
    LET a == Answered(rec, r)
        q == Quoted(rec, r)
    IN IF r.kind = "throw"
       THEN Raise(a)
       ELSE IF ~q.isValid \/ ZeroOutput(q)
            THEN LoopFrom(a, rec.idx + 1)
            ELSE Issue([a EXCEPT !.firstHop = <<q>>], "hop2",
                       GatewayCall(getCommonIntermediateTokens[rec.idx],
                                   rec.params.tokenOut, q.amountOut))

\* the loop body of getSingleHopQuotes with the check of the first hop left out
FirstHopAnsweredUnchecked(rec, r) ==
    LET a == Answered(rec, r)
        q == Quoted(rec, r)
    IN IF r.kind = "throw"
       THEN LoopFrom(a, rec.idx + 1)
       ELSE Issue([a EXCEPT !.firstHop = <<q>>], "hop2",
                  GatewayCall(getCommonIntermediateTokens[rec.idx],
                              rec.params.tokenOut, q.amountOut))

\* the loop body of getSingleHopQuotes once the first hop is answered
FirstHopAnswered(rec, r) ==
    LET a == Answered(rec, r)
        q == Quoted(rec, r)
    IN IF r.kind = "throw"
       THEN LoopFrom(a, rec.idx + 1)
       ELSE IF ~q.isValid \/ ZeroOutput(q)
            THEN LoopFrom(a, rec.idx + 1)
            ELSE Issue([a EXCEPT !.firstHop = <<q>>], "hop2",
                       GatewayCall(getCommonIntermediateTokens[rec.idx],
                                   rec.params.tokenOut, q.amountOut))

\* the loop body of getSingleHopQuotes once the second hop is answered
SecondHopAnswered(rec, r) ==
    LET a == Answered(rec, r)
        q == Quoted(rec, r)
    IN IF r.kind = "throw"
       THEN LoopFrom(a, rec.idx + 1)
       ELSE IF ~q.isValid \/ ZeroOutput(q)
            THEN LoopFrom(a, rec.idx + 1)
            ELSE LET combinedRoute ==
                         combineHops(rec.params, rec.firstHop[1], q,
                                     getCommonIntermediateTokens[rec.idx])
                 IN LoopFrom([a EXCEPT !.routes = Append(@, combinedRoute),
                                       !.lastCombine =
                                           <<[first |-> rec.firstHop[1],
                                              second |-> q,
                                              quote |-> combinedRoute]>>],
                             rec.idx + 1)

BestQuoteOps == {"getBestQuote", "getQuote"}

\* the catch block of getQuoteWithRetry with the timeout set after every failed
\* attempt, the last one too
AttemptFailedAlwaysWaits(rec, t) ==
    LET i == rec.attempts - 1
    IN [rec EXCEPT !.pc = "backoff",
                   !.waits = Append(@, [delay |-> (2^i) * 1000, at |-> t])]

\* the catch block of getQuoteWithRetry after attempt i failed at time t: the
\* timeout of 2^i seconds when an attempt is left, else the throw after the loop
AttemptFailed(rec, t) ==
    LET i == rec.attempts - 1
    IN IF i < rec.input[1].maxRetries - 1
       THEN [rec EXCEPT !.pc = "backoff",
                        !.waits = Append(@, [delay |-> (2^i) * 1000, at |-> t])]
       ELSE Raise(rec)

\* the for loop of getQuoteWithRetry from i = rec.attempts, up to its next
\* await.  getBestQuote(params) throws at once when params is missing: its
\* getCacheKey reads params.tokenIn inside the try, whose catch rethrows.
RetryLoop(rec, cache, t) ==
    IF rec.attempts >= rec.input[1].maxRetries
    THEN Raise(rec)
    ELSE IF rec.input[1].request = <<>>
    THEN AttemptFailed([rec EXCEPT !.attempts = @ + 1], t)
    ELSE [StartBestQuote("getQuoteWithRetry", rec.input[1].request[1],
                         DefaultMaxHops, DefaultSlippage, TRUE, cache, t)
            EXCEPT !.input = rec.input,
                   !.attempts = rec.attempts + 1,
                   !.waits = rec.waits]

\* the cache once the code that took the invocation from before to after has
\* run: getBestQuote caches what it is about to return
CacheOnReturn(cache, before, after, t) ==
    IF /\ Len(before.best) = 0
       /\ Len(after.best) = 1
       /\ ~after.raised
    THEN cacheQuote(cache, getCacheKey(after.params), after.best[1], t)
    ELSE cache

(***************************************************************************)
(* Actions.                                                                *)
(***************************************************************************)
Init ==
    /\ now = 0
    /\ quoteCache = EmptyCache
    /\ calls = [c \in Calls |-> IdleCall]
    /\ positionCache = EmptyPositions
    /\ timers = <<>>

\* QuoterManager.getBestQuote(params, options)
GetBestQuote(c, params, maxHops, slippageTolerance) ==
    /\ calls[c].pc = "idle"
    /\ calls' = [calls EXCEPT ![c] =
                    StartBestQuote("getBestQuote", params, maxHops, slippageTolerance,
                                   TRUE, quoteCache, now)]
    /\ UNCHANGED <<now, quoteCache, positionCache, timers>>

\* DLMMClient.getQuote(params): getBestQuote(params) with the default options;
\* its catch rethrows what getBestQuote throws
GetQuote(c, params) ==
    /\ calls[c].pc = "idle"
    /\ calls' = [calls EXCEPT ![c] =
                    StartBestQuote("getQuote", params, DefaultMaxHops, DefaultSlippage,
                                   TRUE, quoteCache, now)]
    /\ UNCHANGED <<now, quoteCache, positionCache, timers>>

\* QuoterManager.simulateSwap(params): getBestQuote(params) with the default
\* options, then the checks
SimulateSwap(c, params) ==
    /\ calls[c].pc = "idle"
    /\ calls' = [calls EXCEPT ![c] =
                    StartBestQuote("simulateSwap", params, DefaultMaxHops,
                                   DefaultSlippage, TRUE, quoteCache, now)]
    /\ UNCHANGED <<now, quoteCache, positionCache, timers>>

\* QuoterManager.getDetailedQuote(params): getBestQuote(params) with the
\* default options, then getMultiRouteQuotes(params)
GetDetailedQuote(c, params) ==
    /\ calls[c].pc = "idle"
    /\ calls' = [calls EXCEPT ![c] =
                    StartBestQuote("getDetailedQuote", params, DefaultMaxHops,
                                   DefaultSlippage, TRUE, quoteCache, now)]
    /\ UNCHANGED <<now, quoteCache, positionCache, timers>>

\* the invocations that run the getBestQuote calls of getQuoteComparison, in
\* the order of the amounts: both for two amounts, the second one for one
ComparisonSlots(amounts) == IF Len(amounts) = 2 THEN <<"c1", "c2">> ELSE <<"c2">>

\* the sort of getQuoteComparison left out
getQuoteComparisonUnsorted(quotes) == quotes

\* quotes.sort((a, b) => parseInt(b.amountOut) - parseInt(a.amountOut))
getQuoteComparisonSort(quotes) == SortDesc(quotes)

\* QuoterManager.getQuoteComparison(tokenIn, tokenOut, amounts) up to the
\* await of Promise.all: amounts.map calls getBestQuote for every amount, each
\* call running up to its own first await
GetQuoteComparison(tokenIn, tokenOut, amounts) ==
    LET slots == ComparisonSlots(amounts)
    IN /\ \A i \in 1 .. Len(slots) : calls[slots[i]].pc = "idle"
       /\ calls' = [c \in Calls |->
                       IF \E i \in 1 .. Len(slots) : slots[i] = c
                       THEN LET i == CHOOSE i \in 1 .. Len(slots) : slots[i] = c
                            IN [StartBestQuote("getQuoteComparison",
                                               Params(tokenIn, tokenOut, amounts[i]),
                                               DefaultMaxHops, DefaultSlippage, TRUE,
                                               quoteCache, now)
                                  EXCEPT !.input = <<[amounts |-> amounts,
                                                      position |-> i]>>]
                       ELSE calls[c]]
       /\ UNCHANGED <<now, quoteCache, positionCache, timers>>

\* Promise.all resolves once every getBestQuote has; getQuoteComparison sorts
\* the quotes and returns them
ComparisonResolves ==
    LET running == {c \in Calls : calls[c].op = "getQuoteComparison"}
        quotes == [i \in 1 .. Cardinality(running) |->
                      calls[CHOOSE c \in running : calls[c].input[1].position = i].best[1]]
    IN /\ running # {}
       /\ \A c \in running : calls[c].pc = "all"
       /\ calls' = [c \in Calls |->
                       IF c \in running
                       THEN [calls[c] EXCEPT !.pc = "done",
                                             !.ret = <<getQuoteComparisonSort(quotes)>>]
                       ELSE calls[c]]
       /\ UNCHANGED <<now, quoteCache, positionCache, timers>>

\* QuoterManager.analyzePriceImpact(quote)
AnalyzePriceImpact(c, quote) ==
    /\ calls[c].pc = "idle"
    /\ calls' = [calls EXCEPT ![c] =
                    [IdleCall EXCEPT !.op = "analyzePriceImpact",
                                     !.pc = "done",
                                     !.input = <<quote>>,
                                     !.ret = <<analyzePriceImpact(quote)>>]]
    /\ UNCHANGED <<now, quoteCache, positionCache, timers>>

\* QuoterManager.calculateOptimalSlippage(quote)
CalculateOptimalSlippage(c, quote) ==
    /\ calls[c].pc = "idle"
    /\ calls' = [calls EXCEPT ![c] =
                    [IdleCall EXCEPT !.op = "calculateOptimalSlippage",
                                     !.pc = "done",
                                     !.input = <<quote>>,
                                     !.ret = <<calculateOptimalSlippage(quote)>>]]
    /\ UNCHANGED <<now, quoteCache, positionCache, timers>>

\* calculateBinPrice(binId, binStep)
CalculateBinPrice(c, binId, binStep) ==
    /\ calls[c].pc = "idle"
    /\ \E price \in calculateBinPrice(binId, binStep) :
          calls' = [calls EXCEPT ![c] =
                       [IdleCall EXCEPT !.op = "calculateBinPrice",
                                        !.pc = "done",
                                        !.input = <<[binId |-> binId,
                                                     binStep |-> binStep]>>,
                                        !.ret = <<price>>]]
    /\ UNCHANGED <<now, quoteCache, positionCache, timers>>

\* getBinIdFromPrice(price, binStep) on the price calculateBinPrice returned
\* for binStep
GetBinIdFromPrice(c) ==
    /\ calls[c].op = "calculateBinPrice"
    /\ calls[c].pc = "done"
    /\ LET price == calls[c].ret[1]
           binStep == calls[c].input[1].binStep
       IN calls' = [calls EXCEPT ![c] =
                       [IdleCall EXCEPT !.op = "getBinIdFromPrice",
                                        !.pc = "done",
                                        !.input = <<[price |-> price,
                                                     binStep |-> binStep]>>,
                                        !.ret = <<getBinIdFromPrice(price, binStep)>>]]
    /\ UNCHANGED <<now, quoteCache, positionCache, timers>>

\* QuoterManager.getQuoteWithRetry(params, maxRetries), up to its first await
GetQuoteWithRetry(c, request, maxRetries) ==
    /\ calls[c].pc = "idle"
    /\ calls' = [calls EXCEPT ![c] =
                    RetryLoop([IdleCall EXCEPT !.op = "getQuoteWithRetry",
                                               !.input = <<[request |-> request,
                                                            maxRetries |-> maxRetries]>>],
                              quoteCache, now)]
    /\ UNCHANGED <<now, quoteCache, positionCache, timers>>

\* the timeout of getQuoteWithRetry fires: the loop goes on with its next attempt
BackoffElapsed(c) ==
    /\ calls[c].pc = "backoff"
    /\ LET wait == calls[c].waits[Len(calls[c].waits)]
       IN now >= wait.at + wait.delay
    /\ calls' = [calls EXCEPT ![c] = RetryLoop(calls[c], quoteCache, now)]
    /\ UNCHANGED <<now, quoteCache, positionCache, timers>>

\* QuoterManager.getMultiRouteQuotes(params, maxHops)
GetMultiRouteQuotes(c, params, maxHops) ==
    /\ calls[c].pc = "idle"
    /\ calls' = [calls EXCEPT ![c] = StartMultiRoute(params, maxHops)]
    /\ UNCHANGED <<now, quoteCache, positionCache, timers>>

\* QuoterManager.getSingleHopQuotes(params)
GetSingleHopQuotes(c, params) ==
    /\ calls[c].pc = "idle"
    /\ calls' = [calls EXCEPT ![c] = StartSingleHop(params)]
    /\ UNCHANGED <<now, quoteCache, positionCache, timers>>

\* QuoterManager.selectBestRoute(multiRoute): no await in it
SelectBestRoute(c, multiRoute) ==
    /\ calls[c].pc = "idle"
    /\ calls' = [calls EXCEPT ![c] =
                    [IdleCall EXCEPT !.op = "selectBestRoute", !.pc = "done",
                                     !.input = <<multiRoute>>,
                                     !.ret = <<selectBestRoute(multiRoute)>>]]
    /\ UNCHANGED <<now, quoteCache, positionCache, timers>>

\* QuoterManager.calculateMinimumOutput(quote, slippageBps): no await in it
CalculateMinimumOutput(c, quote, slippageBps) ==
    /\ calls[c].pc = "idle"
    /\ calls' = [calls EXCEPT ![c] =
                    [IdleCall EXCEPT !.op = "calculateMinimumOutput", !.pc = "done",
                                     !.input = <<[quote |-> quote,
                                                  slippageBps |-> slippageBps]>>,
                                     !.ret = <<calculateMinimumOutput(quote,
                                                                      slippageBps)>>]]
    /\ UNCHANGED <<now, quoteCache, positionCache, timers>>

\* QuoterManager.getContractQuote(tokenIn, tokenOut, amountIn)
GetContractQuote(c, tokenIn, tokenOut, amountIn) ==
    /\ calls[c].pc = "idle"
    /\ calls' = [calls EXCEPT ![c] = StartContractQuote(tokenIn, tokenOut, amountIn)]
    /\ UNCHANGED <<now, quoteCache, positionCache, timers>>

\* the gateway answers a getContractQuote called by itself
ContractQuoteReply(c, r) ==
    /\ calls[c].pc = "quote"
    /\ calls' = [calls EXCEPT ![c] = ContractQuoteAnswered(calls[c], r)]
    /\ UNCHANGED <<now, quoteCache, positionCache, timers>>

\* the gateway answers the direct route's call
DirectReply(c, r) ==
    /\ calls[c].pc = "direct"
    /\ calls' = [calls EXCEPT ![c] = DirectAnswered(calls[c], r)]
    /\ quoteCache' = CacheOnReturn(quoteCache, calls[c], calls'[c], now)
    /\ UNCHANGED <<now, positionCache, timers>>

\* the gateway answers a first hop's call
FirstHopReply(c, r) ==
    /\ calls[c].pc = "hop1"
    /\ calls' = [calls EXCEPT ![c] = FirstHopAnswered(calls[c], r)]
    /\ quoteCache' = CacheOnReturn(quoteCache, calls[c], calls'[c], now)
    /\ UNCHANGED <<now, positionCache, timers>>

\* the gateway answers a second hop's call
SecondHopReply(c, r) ==
    /\ calls[c].pc = "hop2"
    /\ calls' = [calls EXCEPT ![c] = SecondHopAnswered(calls[c], r)]
    /\ quoteCache' = CacheOnReturn(quoteCache, calls[c], calls'[c], now)
    /\ UNCHANGED <<now, positionCache, timers>>

\* QuoterManager.clearCache()
ClearCache ==
    /\ quoteCache' = EmptyCache
    /\ UNCHANGED <<now, calls, positionCache, timers>>

\* Date.now() moves on
Tick ==
    /\ now < MaxTicks * TickMs
    /\ now' = now + TickMs
    /\ UNCHANGED <<quoteCache, calls, positionCache, timers>>

\* The request flow: concurrent getBestQuote invocations on one QuoterManager,
\* its cache and the clock
Next ==
    \/ \E c \in Calls, p \in FlowRequests \cup HyphenRequests, h \in MaxHopsOptions :
          GetBestQuote(c, p, h, DefaultSlippage)
    \/ \E c \in Calls, r \in FlowReplies : DirectReply(c, r)
    \/ \E c \in Calls, r \in FlowReplies : FirstHopReply(c, r)
    \/ \E c \in Calls, r \in FlowReplies : SecondHopReply(c, r)
    \/ ClearCache
    \/ Tick

Spec == Init /\ [][Next]_vars

\* One invocation by itself of each public method, against every answer the
\* gateway can give
NextCall ==
    \/ \E p \in FlowRequests, h \in MaxHopsOptions, s \in SlippageOptions :
          GetBestQuote("c1", p, h, s)
    \/ \E p \in FlowRequests : GetQuote("c1", p)
    \/ \E p \in RouteRequests, h \in MaxHopsOptions : GetMultiRouteQuotes("c1", p, h)
    \/ \E p \in RouteRequests : GetSingleHopQuotes("c1", p)
    \/ \E p \in RouteRequests : GetContractQuote("c1", p.tokenIn, p.tokenOut, p.amountIn)
    \/ \E r \in WideReplies : ContractQuoteReply("c1", r)
    \/ \E m \in SampleMultiRoutes : SelectBestRoute("c1", m)
    \/ \E p \in FlowRequests : SimulateSwap("c1", p)
    \/ \E q \in OutputQuotes, b \in SlippageBpsOptions :
          CalculateMinimumOutput("c1", q, b)
    \/ \E p \in FlowRequests : GetDetailedQuote("c1", p)
    \/ \E q \in ImpactQuotes : AnalyzePriceImpact("c1", q)
    \/ \E q \in SlippageQuotes : CalculateOptimalSlippage("c1", q)
    \/ \E b \in BinIds, s \in BinSteps \cup NonPositiveBinSteps :
          CalculateBinPrice("c1", b, s)
    \/ GetBinIdFromPrice("c1")
    \/ \E r \in ReplyOptions(calls["c1"].op) : DirectReply("c1", r)
    \/ \E r \in ReplyOptions(calls["c1"].op) : FirstHopReply("c1", r)
    \/ \E r \in ReplyOptions(calls["c1"].op) : SecondHopReply("c1", r)

SpecCall == Init /\ [][NextCall]_vars

\* getQuoteComparison: its getBestQuote calls run concurrently on the cache
\* that an earlier getBestQuote may have filled
NextCompare ==
    \/ \E p \in FlowRequests, h \in MaxHopsOptions :
          GetBestQuote("c1", p, h, DefaultSlippage)
    \/ \E amounts \in AmountLists : GetQuoteComparison("A", "B", amounts)
    \/ \E c \in Calls, r \in CompareReplies : DirectReply(c, r)
    \/ \E c \in Calls, r \in CompareReplies : FirstHopReply(c, r)
    \/ \E c \in Calls, r \in CompareReplies : SecondHopReply(c, r)
    \/ ComparisonResolves

SpecCompare == Init /\ [][NextCompare]_vars

\* PositionManager.getPosition(positionId), up to its await
GetPosition(c, positionId) ==
    /\ calls[c].pc = "idle"
    /\ LET cached == getCachedPosition(positionCache, positionId)
           rec == [IdleCall EXCEPT !.op = "getPosition", !.input = <<positionId>>]
       IN calls' = [calls EXCEPT ![c] =
                       IF Len(cached) > 0
                       THEN [rec EXCEPT !.pc = "done", !.ret = cached]
                       ELSE [rec EXCEPT !.pc = "object"]]
    /\ UNCHANGED <<now, quoteCache, positionCache, timers>>

\* suiClient.getObject answers: getPosition returns null from its catch or for
\* a response without moveObject content, else it caches the position parsed
\* and returns it
ObjectReply(c, r) ==
    /\ calls[c].pc = "object"
    /\ LET position == Position(calls[c].input[1], r.data)
       IN IF r.kind = "moveObject"
          THEN /\ calls' = [calls EXCEPT ![c].pc = "done", ![c].ret = <<position>>]
               /\ positionCache' = cachePosition(positionCache, position, now)
               /\ timers' = cachePositionTimer(timers, position, now)
          ELSE /\ calls' = [calls EXCEPT ![c].pc = "done"]
               /\ UNCHANGED <<positionCache, timers>>
    /\ UNCHANGED <<now, quoteCache>>

\* the oldest timeout of cachePosition fires, its delay over
TimerFires ==
    /\ timers # <<>>
    /\ Head(timers).due <= now
    /\ positionCache' = deletePosition(positionCache, Head(timers).id)
    /\ timers' = Tail(timers)
    /\ UNCHANGED <<now, quoteCache, calls>>

\* PositionManager.clearCache(): the timeouts stay
ClearPositionCache ==
    /\ positionCache' = EmptyPositions
    /\ UNCHANGED <<now, quoteCache, calls, timers>>

\* Date.now() moves on; a timeout that is due fires before it does
PositionTick ==
    /\ now < MaxPositionTicks * PositionTickMs
    /\ IF timers = <<>> THEN TRUE ELSE Head(timers).due > now
    /\ now' = now + PositionTickMs
    /\ UNCHANGED <<quoteCache, calls, positionCache, timers>>

\* concurrent getPosition invocations on one PositionManager, its cache, its
\* timeouts and the clock
NextPosition ==
    \/ \E c \in Calls, id \in PositionIds : GetPosition(c, id)
    \/ \E c \in Calls, r \in ObjectReplies : ObjectReply(c, r)
    \/ TimerFires
    \/ ClearPositionCache
    \/ PositionTick

SpecPosition == Init /\ [][NextPosition]_vars

\* getQuoteWithRetry on a cache that a getBestQuote may have filled, and the
\* clock
NextRetry ==
    \/ \E request \in RetryRequests, maxRetries \in RetryOptions :
          GetQuoteWithRetry("c1", request, maxRetries)
    \/ \E p \in FlowRequests : GetBestQuote("c2", p, DefaultMaxHops, DefaultSlippage)
    \/ \E c \in Calls, r \in FlowReplies : DirectReply(c, r)
    \/ \E c \in Calls, r \in FlowReplies : FirstHopReply(c, r)
    \/ \E c \in Calls, r \in FlowReplies : SecondHopReply(c, r)
    \/ BackoffElapsed("c1")
    \/ Tick

SpecRetry == Init /\ [][NextRetry]_vars

(***************************************************************************)
(* Properties.                                                             *)
(***************************************************************************)
\* c is an invocation of getBestQuote, directly or through DLMMClient.getQuote
IsBestQuote(rec) == rec.op \in BestQuoteOps

\* the step taken is the call of the method: its code up to the first await
Called(c) == calls[c].pc = "idle" /\ calls'[c].pc # "idle"

\* the step taken is the one in which the method returns after an await
Returns(c) == calls[c].pc \notin {"idle", "done"} /\ calls'[c].pc = "done"

\* some intermediate had both of its hops answered with a positive output;
\* hops is the answers to the hop calls, in order
SomeRouteFound(hops) ==
    \E i \in 1 .. (Len(hops) - 1) : hops[i] = "usable" /\ hops[i + 1] = "usable"

\* the answers to the hop calls of an invocation: all but the direct route's
HopAnswers(rec) ==
    IF rec.op = "getSingleHopQuotes" THEN rec.answers
    ELSE SubSeq(rec.answers, 2, Len(rec.answers))

\* C1: getBestQuote looks the request's key up before anything else.  When the
\* Map holds an entry for the key that is not expired, the call returns that
\* entry's quote at once, issues no gateway call and leaves the Map alone;
\* otherwise it issues the gateway call of the direct route, and when it
\* returns later the Map holds, under the key, the quote it returns.
C1_CacheConsultedFirst ==
    [][\A c \in Calls :
        LET after == calls'[c]
            key == getCacheKey(after.params)
            unexpired == /\ key \in DOMAIN quoteCache
                         /\ now - quoteCache[key].timestamp < CACHE_TTL
        IN /\ (Called(c) /\ IsBestQuote(after)) =>
                IF unexpired
                THEN /\ after.pc = "done"
                     /\ ~after.raised
                     /\ after.ret = <<quoteCache[key].quote>>
                     /\ after.gwLog = <<>>
                     /\ quoteCache' = quoteCache
                ELSE /\ after.pc # "done"
                     /\ Len(after.gwLog) = 1
           /\ (Returns(c) /\ IsBestQuote(after)) =>
                /\ ~after.raised
                /\ key \in DOMAIN quoteCache'
                /\ quoteCache'[key].quote = after.ret[1]
    ]_vars

\* a call answered from the cache with the quote an earlier call computed
C1_Witness ==
    \E c \in Calls, d \in Calls :
        /\ c # d
        /\ calls[c].pc = "done" /\ calls[d].pc = "done"
        /\ calls[c].gwLog = <<>>
        /\ Len(calls[d].gwLog) = 3
        /\ calls[c].params = calls[d].params
        /\ calls[c].ret = calls[d].ret
        /\ calls[c].ret[1].isValid

\* C2: an entry is stamped with the time of its write; a lookup of its key at
\* a time less than 10000 ms after the stamp returns its quote, and a lookup
\* 10000 ms or more after the stamp goes on as for a key with no entry.  So a
\* call that returns without a gateway call returns a quote stored less than
\* 10000 ms before.
C2_CacheTTL ==
    [][\A c \in Calls :
        LET after == calls'[c]
            key == getCacheKey(after.params)
        IN /\ (Called(c) /\ IsBestQuote(after) /\ key \in DOMAIN quoteCache) =>
                LET age == now - quoteCache[key].timestamp
                IN /\ age < 10000 =>
                        after.pc = "done" /\ after.ret = <<quoteCache[key].quote>>
                   /\ age >= 10000 =>
                        /\ after.pc = "direct"
                        /\ after.ret = <<>>
                        /\ after.gwLog = <<GatewayCall(after.params.tokenIn,
                                                       after.params.tokenOut,
                                                       after.params.amountIn)>>
           /\ (Called(c) /\ IsBestQuote(after) /\ after.pc = "done") =>
                /\ key \in DOMAIN quoteCache
                /\ now - quoteCache[key].timestamp < 10000
           /\ (Returns(c) /\ IsBestQuote(after)) =>
                quoteCache'[key].timestamp = now
    ]_vars

\* a lookup that found the entry of its key 10000 ms old or older
C2_Witness ==
    \E c \in Calls :
        LET key == getCacheKey(calls[c].params)
        IN /\ calls[c].sawExpired
           /\ calls[c].pc = "direct"
           /\ key \in DOMAIN quoteCache
           /\ now - quoteCache[key].timestamp = CACHE_TTL

\* C3 as claimed: a getBestQuote whose direct route's gateway call threw
\* raises to its caller.
C3_DirectFailureRaised ==
    \A c \in Calls :
        (/\ calls[c].pc = "done"
         /\ IsBestQuote(calls[c])
         /\ Len(calls[c].answers) > 0
         /\ calls[c].answers[1] = "threw") => calls[c].raised

\* C3: a getBestQuote whose direct route's gateway call threw does not raise:
\* it returns the multi-hop route when an intermediate gave one, and a quote
\* with isValid = false otherwise.
C3_DirectFailureSwallowed ==
    \A c \in Calls :
        (/\ calls[c].pc = "done"
         /\ IsBestQuote(calls[c])
         /\ Len(calls[c].answers) > 0
         /\ calls[c].answers[1] = "threw") =>
            /\ ~calls[c].raised
            /\ Len(calls[c].ret) = 1
            /\ IF SomeRouteFound(HopAnswers(calls[c]))
               THEN /\ calls[c].ret[1].isValid
                    /\ calls[c].ret[1].route.routeType = "multi-hop"
               ELSE ~calls[c].ret[1].isValid

\* the direct route's call threw and the call returned a multi-hop route
C3_Witness ==
    \E c \in Calls :
        /\ calls[c].pc = "done"
        /\ calls[c].op = "getBestQuote"
        /\ calls[c].answers = <<"threw", "usable", "usable">>
        /\ ~calls[c].raised
        /\ calls[c].ret[1].isValid

\* C4: DLMMClient.getQuote, when every gateway call it led to threw or came
\* back without a positive amountOut, resolves to a quote with isValid = false
\* and does not throw.
C4_GetQuoteInvalidNotThrown ==
    \A c \in Calls :
        (/\ calls[c].pc = "done"
         /\ calls[c].op = "getQuote"
         /\ Len(calls[c].answers) > 0
         /\ \A i \in 1 .. Len(calls[c].answers) : calls[c].answers[i] # "usable") =>
            /\ ~calls[c].raised
            /\ Len(calls[c].ret) = 1
            /\ ~calls[c].ret[1].isValid

\* getQuote for amountIn "0" whose direct call threw and whose first hop came
\* back unusable
C4_Witness ==
    \E c \in Calls :
        /\ calls[c].pc = "done"
        /\ calls[c].op = "getQuote"
        /\ calls[c].params.amountIn = "0"
        /\ calls[c].answers = <<"threw", "unusable">>
        /\ ~calls[c].ret[1].isValid

\* the gateway's response is absent or malformed: no return values, or an
\* amountOut position that is missing, unparsable or zero
Malformed(r) ==
    \/ r.kind \in {"undefined", "noReturnValues"}
    \/ r.kind = "values" /\ r.vals[1] \notin PositiveAmounts

\* C5 as claimed: on an absent or malformed response getContractQuote returns,
\* without raising, a quote with isValid = false and amountIn, amountOut and
\* feeAmount all "0".
C5_MalformedAllZero ==
    \A c \in Calls :
        (/\ calls[c].pc = "done"
         /\ calls[c].op = "getContractQuote"
         /\ Malformed(calls[c].reply[1])) =>
            /\ ~calls[c].raised
            /\ Len(calls[c].ret) = 1
            /\ ~calls[c].ret[1].isValid
            /\ calls[c].ret[1].amountIn = "0"
            /\ calls[c].ret[1].amountOut = "0"
            /\ calls[c].ret[1].feeAmount = "0"

\* C5: on an absent or malformed response getContractQuote returns, without
\* raising, a quote with isValid = false.  Its three amounts are all "0" when
\* the response has no return values; when it has, amountIn is the requested
\* amount, and amountOut and feeAmount are the response's positions as they
\* came, "0" for a missing one.
C5_MalformedInvalid ==
    \A c \in Calls :
        (/\ calls[c].pc = "done"
         /\ calls[c].op = "getContractQuote"
         /\ Malformed(calls[c].reply[1])) =>
            LET r == calls[c].reply[1]
                q == calls[c].ret[1]
            IN /\ ~calls[c].raised
               /\ Len(calls[c].ret) = 1
               /\ ~q.isValid
               /\ r.kind # "values" =>
                    q.amountIn = "0" /\ q.amountOut = "0" /\ q.feeAmount = "0"
               /\ r.kind = "values" =>
                    /\ q.amountIn = calls[c].params.amountIn
                    /\ q.amountOut = (IF r.vals[1] = Undefined THEN "0" ELSE r.vals[1])
                    /\ q.feeAmount = (IF r.vals[3] = Undefined THEN "0" ELSE r.vals[3])

\* a response whose amountOut does not parse: the quote keeps it, with the
\* requested amount and the fee
C5_Witness ==
    \E c \in Calls :
        /\ calls[c].pc = "done"
        /\ calls[c].op = "getContractQuote"
        /\ calls[c].reply[1].kind = "values"
        /\ calls[c].reply[1].vals[1] = "abc"
        /\ ~calls[c].ret[1].isValid
        /\ calls[c].ret[1].amountOut = "abc"
        /\ calls[c].ret[1].amountIn = ToStr(MaxAmount)
        /\ calls[c].ret[1].feeAmount = "1"

\* the methods that run the loop of getSingleHopQuotes
EnumeratorOps == {"getSingleHopQuotes", "getMultiRouteQuotes", "getBestQuote", "getQuote"}

C7_CombinedQuote ==
    \A c \in Calls :
        Len(calls[c].lastCombine) = 1 =>
            LET f == calls[c].lastCombine[1].first
                s == calls[c].lastCombine[1].second
                q == calls[c].lastCombine[1].quote
            IN /\ q.amountOut = s.amountOut
               /\ ~IsNaNInt(q.feeAmount)
               /\ ParseInt(q.feeAmount) = ParseInt(f.feeAmount) + ParseInt(s.feeAmount)
               /\ ~IsNaNInt(q.gasEstimate)
               /\ ParseInt(q.gasEstimate) = ParseInt(f.gasEstimate) + ParseInt(s.gasEstimate)
               /\ ~IsNaNFloat(q.priceImpact)
               /\ ParseFloat(q.priceImpact) =
                      ParseFloat(f.priceImpact) + ParseFloat(s.priceImpact)
               /\ q.slippageTolerance \in {f.slippageTolerance, s.slippageTolerance}
               /\ q.slippageTolerance >= f.slippageTolerance
               /\ q.slippageTolerance >= s.slippageTolerance
               /\ q.route.routeType = "multi-hop"
               /\ q.route.hops = f.route.hops \o s.route.hops
               /\ \E i \in 1 .. Len(calls[c].routes) : calls[c].routes[i] = q

\* two hops with fee 1 and price impact 0.5 each, one with the default gas
C7_Witness ==
    \E c \in Calls :
        /\ Len(calls[c].lastCombine) = 1
        /\ calls[c].lastCombine[1].first.feeAmount = "1"
        /\ calls[c].lastCombine[1].second.feeAmount = "1"
        /\ calls[c].lastCombine[1].first.amountOut = "1"
        /\ calls[c].lastCombine[1].second.amountOut = "2"
        /\ calls[c].lastCombine[1].quote.amountOut = "2"
        /\ calls[c].lastCombine[1].quote.feeAmount = "2"
        /\ calls[c].lastCombine[1].quote.priceImpact = "1"
        /\ calls[c].lastCombine[1].quote.gasEstimate = "150000"
        /\ Len(calls[c].lastCombine[1].quote.route.hops) = 2

\* C8: in every multi-hop quote of the list getSingleHopQuotes returns, the
\* hops start at the request's tokenIn, end at its tokenOut, and each hop's
\* tokenOut is the next hop's tokenIn.
C8_HopChain ==
    \A c \in Calls :
        Len(calls[c].hopQuotes) = 1 =>
            \A i \in 1 .. Len(calls[c].hopQuotes[1]) :
                LET q == calls[c].hopQuotes[1][i]
                    hops == q.route.hops
                IN q.route.routeType = "multi-hop" =>
                    /\ Len(hops) >= 1
                    /\ hops[1].tokenIn = calls[c].params.tokenIn
                    /\ hops[Len(hops)].tokenOut = calls[c].params.tokenOut
                    /\ \A k \in 1 .. (Len(hops) - 1) :
                           hops[k].tokenOut = hops[k + 1].tokenIn

\* a returned list with the route A -> USDC -> B
C8_Witness ==
    \E c \in Calls :
        /\ calls[c].op = "getSingleHopQuotes"
        /\ calls[c].pc = "done"
        /\ calls[c].params.tokenIn = "A"
        /\ calls[c].params.tokenOut = "B"
        /\ Len(calls[c].ret[1]) = 1
        /\ calls[c].ret[1][1].route.routeType = "multi-hop"
        /\ Len(calls[c].ret[1][1].route.hops) = 2
        /\ calls[c].ret[1][1].route.hops[1].tokenOut = "USDC"

\* the score of the claim, times 1000:
\* amountOut - feeAmount - 0.001 * gasEstimate - 1000 * priceImpact
\* (ParseFloat counts hundredths, so 1000 * 1000 * priceImpact is 10000 of them)
ClaimScore(q) ==
    1000 * ParseInt(q.amountOut) - 1000 * ParseInt(q.feeAmount)
        - ParseInt(q.gasEstimate) - 10000 * ParseFloat(q.priceImpact)

\* best is what the claim says selectBestRoute returns for the candidates
\* cands: the first of the valid candidates of greatest score, or the empty
\* quote when none is valid
IsBestOf(best, cands) ==
    LET valid == {i \in 1 .. Len(cands) : cands[i].isValid}
    IN IF valid = {}
       THEN /\ ~best.isValid
            /\ best.amountOut = "0" /\ best.amountIn = "0" /\ best.feeAmount = "0"
            /\ best.route.hops = <<>>
       ELSE \E i \in valid :
                /\ best = cands[i]
                /\ best.isValid
                /\ \A j \in valid : ClaimScore(cands[i]) >= ClaimScore(cands[j])
                /\ \A j \in valid : j < i => ClaimScore(cands[j]) < ClaimScore(cands[i])

\* C9: selectBestRoute returns the first of the valid candidates of greatest
\* score, the candidates being the direct route, the single-hop routes and
\* the multi-hop routes in that order, and the empty quote with
\* isValid = false when no candidate is valid; so does the selection inside
\* getMultiRouteQuotes over its routes.
C9_SelectBest ==
    \A c \in Calls :
        /\ (calls[c].op = "selectBestRoute" /\ calls[c].pc = "done") =>
                IsBestOf(calls[c].ret[1],
                         calls[c].input[1].directRoute
                             \o calls[c].input[1].singleHopRoutes
                             \o calls[c].input[1].multiHopRoutes)
        /\ (Len(calls[c].multiRoute) = 1
                /\ Len(calls[c].multiRoute[1].singleHopRoutes) > 0) =>
                IsBestOf(calls[c].multiRoute[1].bestRoute,
                         calls[c].multiRoute[1].singleHopRoutes)

\* an invalid candidate, then two different valid ones of equal greatest
\* score: the first of the two is returned
C9_Witness ==
    \E c \in Calls :
        /\ calls[c].op = "selectBestRoute"
        /\ calls[c].pc = "done"
        /\ Len(calls[c].input[1].directRoute) = 1
        /\ Len(calls[c].input[1].singleHopRoutes) = 1
        /\ Len(calls[c].input[1].multiHopRoutes) = 1
        /\ ~calls[c].input[1].directRoute[1].isValid
        /\ calls[c].input[1].singleHopRoutes[1].isValid
        /\ calls[c].input[1].multiHopRoutes[1].isValid
        /\ calls[c].input[1].singleHopRoutes[1] # calls[c].input[1].multiHopRoutes[1]
        /\ ClaimScore(calls[c].input[1].singleHopRoutes[1])
               = ClaimScore(calls[c].input[1].multiHopRoutes[1])
        /\ calls[c].ret[1] = calls[c].input[1].singleHopRoutes[1]

\* C10: when no intermediate gave a route, getSingleHopQuotes returns the
\* empty list, and a getBestQuote that missed the cache returns the direct
\* route (the direct quote, its slippage tolerance set by enhanceQuote) when
\* the direct quote is valid, and a quote with isValid = false otherwise.
C10_FallbackToDirect ==
    \A c \in Calls :
        LET rec == calls[c]
        IN /\ (Len(rec.hopQuotes) = 1 /\ ~SomeRouteFound(HopAnswers(rec))) =>
                rec.hopQuotes[1] = <<>>
           /\ (/\ rec.pc = "done"
               /\ IsBestQuote(rec)
               /\ Len(rec.answers) > 0
               /\ ~SomeRouteFound(HopAnswers(rec))) =>
                /\ ~rec.raised
                /\ Len(rec.ret) = 1
                /\ IF rec.answers[1] = "usable"
                   THEN /\ rec.ret[1].isValid
                        /\ rec.ret[1].route.routeType = "direct"
                        /\ Len(rec.ret[1].route.hops) = 1
                        /\ rec.ret[1].route.hops[1].tokenIn = rec.params.tokenIn
                        /\ rec.ret[1].route.hops[1].tokenOut = rec.params.tokenOut
                        /\ rec.ret[1].amountIn = rec.params.amountIn
                        /\ Len(rec.directRoute) = 1
                        /\ [rec.ret[1] EXCEPT !.slippageTolerance =
                                rec.directRoute[1].slippageTolerance] = rec.directRoute[1]
                   ELSE ~rec.ret[1].isValid

\* a valid direct quote, a first hop that worked and a second hop that did
\* not: the direct route comes back
C10_Witness ==
    \E c \in Calls :
        /\ calls[c].pc = "done"
        /\ calls[c].op = "getBestQuote"
        /\ calls[c].answers = <<"usable", "usable", "unusable">>
        /\ calls[c].ret[1].isValid
        /\ calls[c].ret[1].route.routeType = "direct"
        /\ calls[c].hopQuotes = << <<>> >>


(***************************************************************************)
(* The options, the simulation, the detailed quote and the utilities.      *)
(***************************************************************************)
\* C11: a getBestQuote called with maxHops = 1 never returns a quote whose
\* route is tagged multi-hop, whatever invocations came before it.
C11_MaxHopsGoverns ==
    \A c \in Calls :
        (/\ calls[c].pc = "done"
         /\ calls[c].op = "getBestQuote"
         /\ calls[c].maxHops = 1
         /\ ~calls[c].raised) =>
            calls[c].ret[1].route.routeType # "multi-hop"

\* C12: simulateSwap returns canExecute = false and at least one error when
\* the quote is not valid, has an amountOut of 0 or has a priceImpact above
\* 15; for a valid quote of non-zero output whose priceImpact is above 5 and
\* not above 15 it returns canExecute = true, at least one warning and no
\* error.  (ParseFloat counts hundredths.)
C12_SimulateSwap ==
    \A c \in Calls :
        (calls[c].op = "simulateSwap" /\ calls[c].pc = "done") =>
            LET res == calls[c].ret[1]
                q == res.quote
                zero == ParseInt(q.amountOut) = 0
                impact == ParseFloat(q.priceImpact)
            IN /\ ~calls[c].raised
               /\ q = calls[c].best[1]
               /\ (~q.isValid \/ zero \/ impact > 1500) =>
                    (~res.canExecute /\ Len(res.errors) > 0)
               /\ (q.isValid /\ ~zero /\ impact > 500 /\ impact <= 1500) =>
                    (res.canExecute /\ Len(res.warnings) > 0 /\ Len(res.errors) = 0)

\* a valid quote with a price impact of exactly 15: executable, with a warning
C12_Witness ==
    \E c \in Calls :
        /\ calls[c].op = "simulateSwap"
        /\ calls[c].pc = "done"
        /\ calls[c].ret[1].quote.isValid
        /\ calls[c].ret[1].quote.priceImpact = "15"
        /\ calls[c].ret[1].canExecute
        /\ Len(calls[c].ret[1].warnings) = 1
        /\ Len(calls[c].ret[1].errors) = 0

\* the list is ordered by descending parseInt(amountOut)
DescendingByAmountOut(list) ==
    \A i \in 1 .. (Len(list) - 1) :
        ParseInt(list[i].amountOut) >= ParseInt(list[i + 1].amountOut)

\* C13: in the result of getDetailedQuote, alternativeRoutes never holds the
\* route returned as quote, holds every other valid candidate for the request,
\* and is ordered by descending amountOut.
C13_AlternativesComplement ==
    \A c \in Calls :
        (calls[c].op = "getDetailedQuote" /\ calls[c].pc = "done") =>
            LET res == calls[c].ret[1]
                alts == res.alternativeRoutes
                cands == calls[c].multiRoute[1].singleHopRoutes
            IN /\ \A i \in 1 .. Len(alts) : alts[i].route # res.quote.route
               /\ \A j \in 1 .. Len(cands) :
                    cands[j].route # res.quote.route =>
                        \E i \in 1 .. Len(alts) : alts[i] = cands[j]
               /\ DescendingByAmountOut(alts)

\* C14: calculateMinimumOutput(quote, slippageBps) is
\* floor(amountOut * (10000 - slippageBps) / 10000); it is below amountOut
\* when slippageBps > 0 and equal to amountOut when slippageBps = 0.  (The
\* second part is read for a positive amountOut: nothing is below 0.)
C14_MinimumOutputFloor ==
    \A c \in Calls :
        (calls[c].op = "calculateMinimumOutput" /\ calls[c].pc = "done") =>
            LET amountOut == ParseInt(calls[c].input[1].quote.amountOut)
                slippageBps == calls[c].input[1].slippageBps
                minimum == ParseInt(calls[c].ret[1])
            IN /\ ~IsNaNInt(calls[c].ret[1])
               /\ minimum = (amountOut * (10000 - slippageBps)) \div 10000
               /\ (slippageBps > 0 /\ amountOut > 0) => minimum < amountOut
               /\ slippageBps = 0 => minimum = amountOut

\* C15 as claimed: of two slippage values the smaller gives the strictly
\* greater minimum output.
C15_MinimumOutputStrictlyDecreasing ==
    \A c \in Calls :
        (calls[c].op = "calculateMinimumOutput" /\ calls[c].pc = "done") =>
            \A s2 \in SlippageBpsOptions :
                calls[c].input[1].slippageBps < s2 =>
                    ParseInt(calls[c].ret[1])
                        > ParseInt(calculateMinimumOutput(calls[c].input[1].quote, s2))

\* C15: of two slippage values the smaller gives a minimum output that is
\* greater than or equal to the other's.
C15_MinimumOutputNonIncreasing ==
    \A c \in Calls :
        (calls[c].op = "calculateMinimumOutput" /\ calls[c].pc = "done") =>
            \A s2 \in SlippageBpsOptions :
                calls[c].input[1].slippageBps < s2 =>
                    /\ ~IsNaNInt(calls[c].ret[1])
                    /\ ParseInt(calls[c].ret[1])
                        >= ParseInt(calculateMinimumOutput(calls[c].input[1].quote, s2))

\* an output of 1 at 1 basis point: the minimum is 0, as it is at 50
C15_Witness ==
    \E c \in Calls :
        /\ calls[c].op = "calculateMinimumOutput"
        /\ calls[c].pc = "done"
        /\ calls[c].input[1].quote.amountOut = "1"
        /\ calls[c].input[1].slippageBps = 1
        /\ calls[c].ret[1] = "0"
        /\ calculateMinimumOutput(calls[c].input[1].quote, 50) = "0"

\* the elements of a sequence
Range(seq) == {seq[i] : i \in 1 .. Len(seq)}

\* the quotes QuoterManager made in the course of an invocation: the quotes
\* of the resolver, of combineHops and of the selection, and what was returned
ProducedQuotes(rec) ==
    Range(rec.directRoute) \cup Range(rec.firstHop) \cup Range(rec.routes)
        \cup Range(rec.best)
        \cup UNION {Range(l) : l \in Range(rec.hopQuotes)}
        \cup UNION {{m.bestRoute} \cup Range(m.singleHopRoutes)
                        \cup Range(m.alternativeRoutes) : m \in Range(rec.multiRoute)}
        \cup (IF rec.op \in BestQuoteOps \cup {"getContractQuote", "selectBestRoute"}
              THEN Range(rec.ret) ELSE {})

\* C16 as claimed: a quote whose route is tagged direct has exactly one hop,
\* and one whose route is tagged multi-hop has exactly two.
C16_HopCountByRouteType ==
    \A c \in Calls :
        \A q \in ProducedQuotes(calls[c]) :
            /\ q.route.routeType = "direct" => Len(q.route.hops) = 1
            /\ q.route.routeType = "multi-hop" => Len(q.route.hops) = 2

\* C16: a quote whose route is tagged direct has exactly one hop, unless it is
\* the empty quote (not valid, amountOut "0"), whose route is tagged direct
\* and has no hop; a quote whose route is tagged multi-hop has exactly two.
C16_HopCountUnlessEmpty ==
    \A c \in Calls :
        \A q \in ProducedQuotes(calls[c]) :
            /\ q.route.routeType \in {"direct", "multi-hop"}
            /\ q.route.routeType = "direct" =>
                    \/ Len(q.route.hops) = 1
                    \/ /\ Len(q.route.hops) = 0
                       /\ [q EXCEPT !.slippageTolerance = DefaultSlippage]
                              = createEmptyQuote
            /\ q.route.routeType = "multi-hop" => Len(q.route.hops) = 2
            /\ q.isValid => Len(q.route.hops) \in {1, 2}

\* an enumeration that kept a direct quote of one hop and a route of two
C16_Witness ==
    \E c \in Calls :
        /\ calls[c].op = "getMultiRouteQuotes"
        /\ calls[c].pc = "done"
        /\ Len(calls[c].multiRoute[1].singleHopRoutes) = 2
        /\ calls[c].multiRoute[1].singleHopRoutes[1].route.routeType = "direct"
        /\ Len(calls[c].multiRoute[1].singleHopRoutes[1].route.hops) = 1
        /\ calls[c].multiRoute[1].singleHopRoutes[2].route.routeType = "multi-hop"
        /\ Len(calls[c].multiRoute[1].singleHopRoutes[2].route.hops) = 2

\* C17: a quote that getBestQuote returns with isValid = true has an
\* amountOut above 0 and a gasEstimate above 0.
C17_ValidQuotePositive ==
    \A c \in Calls :
        (/\ calls[c].pc = "done"
         /\ IsBestQuote(calls[c])
         /\ ~calls[c].raised
         /\ calls[c].ret[1].isValid) =>
            /\ ~IsNaNInt(calls[c].ret[1].amountOut)
            /\ ParseInt(calls[c].ret[1].amountOut) > 0
            /\ ~IsNaNInt(calls[c].ret[1].gasEstimate)
            /\ ParseInt(calls[c].ret[1].gasEstimate) > 0

IsPermutation(a, b) ==
    /\ Len(a) = Len(b)
    /\ \E f \in [1 .. Len(a) -> 1 .. Len(a)] :
        /\ \A i, j \in 1 .. Len(a) : f[i] = f[j] => i = j
        /\ \A i \in 1 .. Len(a) : b[f[i]] = a[i]

\* C19: getQuoteComparison returns one quote per element of amounts: the
\* quotes its getBestQuote calls resolved with, one call per amount made with
\* that amount, ordered by descending amountOut.
C19_QuoteComparison ==
    \A c \in Calls :
        (calls[c].op = "getQuoteComparison" /\ calls[c].pc = "done") =>
            LET amounts == calls[c].input[1].amounts
                slots == ComparisonSlots(amounts)
                result == calls[c].ret[1]
            IN /\ ~calls[c].raised
               /\ Len(result) = Len(amounts)
               /\ \A i \in 1 .. Len(amounts) :
                    /\ calls[slots[i]].op = "getQuoteComparison"
                    /\ calls[slots[i]].params = Params("A", "B", amounts[i])
                    /\ calls[slots[i]].ret = calls[c].ret
               /\ IsPermutation([i \in 1 .. Len(amounts) |-> calls[slots[i]].best[1]],
                                result)
               /\ \A i \in 1 .. Len(result) :
                    result[i].isValid =>
                        \E j \in 1 .. Len(amounts) : result[i].amountIn = amounts[j]
               /\ DescendingByAmountOut(result)

\* amounts "0" and then the largest: the quote for the second comes first
C19_Witness ==
    \E c \in Calls :
        /\ calls[c].op = "getQuoteComparison"
        /\ calls[c].pc = "done"
        /\ calls[c].input[1].amounts = <<"0", ToStr(MaxAmount)>>
        /\ Len(calls[c].ret[1]) = 2
        /\ calls[c].ret[1][1].isValid
        /\ calls[c].ret[1][1].amountIn = ToStr(MaxAmount)
        /\ ~calls[c].ret[1][2].isValid
        /\ calls[c].ret[1][1] = calls["c2"].best[1]
        /\ calls[c].ret[1][2] = calls["c1"].best[1]

\* C20: analyzePriceImpact grades a price impact p as low when p < 0.1, medium
\* when 0.1 <= p < 1, high when 1 <= p < 5 and extreme when p >= 5, and
\* shouldWarn is true exactly when the level is not low. ParseFloat counts
\* hundredths of a percent.
C20_PriceImpactLevels ==
    \A c \in Calls :
        (calls[c].op = "analyzePriceImpact" /\ calls[c].pc = "done"
            /\ ~IsNaNFloat(calls[c].input[1].priceImpact)) =>
            LET p == ParseFloat(calls[c].input[1].priceImpact)
                analysis == calls[c].ret[1]
            IN /\ analysis.level = "low" <=> p < 10
               /\ analysis.level = "medium" <=> (10 <= p /\ p < 100)
               /\ analysis.level = "high" <=> (100 <= p /\ p < 500)
               /\ analysis.level = "extreme" <=> p >= 500
               /\ analysis.shouldWarn <=> analysis.level # "low"
               /\ analysis.percentage = calls[c].input[1].priceImpact

\* a price impact of exactly 0.1 percent is medium and warned about
C20_Witness ==
    \E c \in Calls :
        /\ calls[c].op = "analyzePriceImpact"
        /\ calls[c].pc = "done"
        /\ calls[c].input[1].priceImpact = "0.1"
        /\ calls[c].ret[1].level = "medium"
        /\ calls[c].ret[1].shouldWarn

(***************************************************************************)
(* The slippage tolerance, the caches and the retries.                     *)
(***************************************************************************)
\* the invocation c of calculateOptimalSlippage has returned
SlippageReturned(c) ==
    calls[c].op = "calculateOptimalSlippage" /\ calls[c].pc = "done"

\* C21 as stated: the tolerance is 50 for a price impact of at most 1 and
\* exactly min(50 + priceImpact * 10, 500) above it, maxSlippage is 1000 and
\* 0 < tolerance <= 500 <= maxSlippage.  The tolerance is compared in
\* tenths of a basis point, the price impact being in hundredths.
C21_OptimalSlippageExact ==
    \A c \in Calls :
        SlippageReturned(c) =>
            LET h == ParseFloat(calls[c].input[1].priceImpact)
                isNaN == IsNaNFloat(calls[c].input[1].priceImpact)
                config == calls[c].ret[1]
            IN /\ (~isNaN /\ h <= 100) => config.tolerance = 50
               /\ (~isNaN /\ h > 100) =>
                    10 * config.tolerance = Min(500 + h, 5000)
               /\ config.maxSlippage = 1000
               /\ 0 < config.tolerance
               /\ config.tolerance <= 500
               /\ 500 <= config.maxSlippage

\* C21: the tolerance is 50 for a price impact of at most 1 and
\* min(50 + priceImpact * 10, 500) rounded to the nearest integer, a half
\* upwards, above it; maxSlippage is 1000 and 0 < tolerance <= 500 <=
\* maxSlippage.
C21_OptimalSlippageRounded ==
    \A c \in Calls :
        SlippageReturned(c) =>
            LET h == ParseFloat(calls[c].input[1].priceImpact)
                isNaN == IsNaNFloat(calls[c].input[1].priceImpact)
                config == calls[c].ret[1]
                exact10 == Min(500 + h, 5000)
            IN /\ (~isNaN /\ h <= 100) => config.tolerance = 50
               /\ (~isNaN /\ h > 100) =>
                    /\ 10 * config.tolerance - 5 <= exact10
                    /\ exact10 < 10 * config.tolerance + 5
               /\ config.maxSlippage = 1000
               /\ 0 < config.tolerance
               /\ config.tolerance <= 500
               /\ 500 <= config.maxSlippage

\* a price impact of 1.05 percent: 60.5 is rounded to 61
C21_Witness ==
    \E c \in Calls :
        /\ SlippageReturned(c)
        /\ calls[c].input[1].priceImpact = "1.05"
        /\ calls[c].ret[1].tolerance = 61

\* C22: for a bin id between -MaxBinId and MaxBinId and an allowed bin step,
\* getBinIdFromPrice of the price calculateBinPrice returned is a number that
\* differs from the bin id by at most 1.
C22_BinRoundTrip ==
    \A c \in Calls :
        (calls[c].op = "getBinIdFromPrice" /\ calls[c].pc = "done"
            /\ calls[c].input[1].binStep \in BinSteps
            /\ calls[c].input[1].price.binId \in (-MaxBinId) .. MaxBinId) =>
            LET binId == calls[c].input[1].price.binId
                recovered == calls[c].ret[1]
            IN /\ recovered.kind = "number"
               /\ recovered.n - binId <= 1
               /\ binId - recovered.n <= 1

\* C23: calculateBinPrice raises and returns no price when binStep <= 0.
C23_NonPositiveStepFails ==
    \A c \in Calls :
        (calls[c].op = "calculateBinPrice" /\ calls[c].pc = "done"
            /\ calls[c].input[1].binStep <= 0) =>
            /\ calls[c].raised
            /\ calls[c].ret = <<>>

\* the invocation c looks its key up in this step and finds an entry past
\* its TTL
FindsExpired(c) == Called(c) /\ calls'[c].sawExpired

\* C24: an entry leaves the quote cache only in a clearCache or in a lookup
\* that finds it expired; after a lookup found an entry expired the entry is
\* not in the cache, and after clearCache the cache is empty.
C24_LeavesByClearOrEviction ==
    [][/\ \A c \in Calls :
            FindsExpired(c) => getCacheKey(calls'[c].params) \notin DOMAIN quoteCache'
       /\ ClearCache => DOMAIN quoteCache' = {}
       /\ \A k \in DOMAIN quoteCache :
            k \notin DOMAIN quoteCache' =>
                \/ ClearCache
                \/ \E c \in Calls : FindsExpired(c) /\ getCacheKey(calls'[c].params) = k
      ]_vars

\* the invocation c of getBestQuote was answered from the cache
FromCache(c) ==
    /\ calls[c].op = "getBestQuote"
    /\ calls[c].pc = "done"
    /\ calls[c].gwLog = <<>>

\* the invocation d computed the quote that c was answered with; of the two
\* invocations on the QuoterManager it is the one that stored it
StoredFor(c, d) ==
    /\ d # c
    /\ calls[d].op = "getBestQuote"
    /\ calls[d].gwLog # <<>>
    /\ calls[d].best = calls[c].ret

\* C25 as stated: a quote returned from the cache was stored for a request
\* with the same tokenIn, tokenOut and amountIn.
C25_KeyedByTriple ==
    \A c \in Calls :
        FromCache(c) =>
            \E d \in Calls :
                /\ StoredFor(c, d)
                /\ calls[d].params.tokenIn = calls[c].params.tokenIn
                /\ calls[d].params.tokenOut = calls[c].params.tokenOut
                /\ calls[d].params.amountIn = calls[c].params.amountIn

\* C25: among requests whose token names hold no "-", a quote returned from
\* the cache was stored for a request with the same tokenIn, tokenOut and
\* amountIn.
C25_KeyedByTripleOfPlainTokens ==
    \A c \in Calls :
        FromCache(c) =>
            \E d \in Calls :
                /\ StoredFor(c, d)
                /\ ({calls[c].params.tokenIn, calls[c].params.tokenOut,
                     calls[d].params.tokenIn, calls[d].params.tokenOut}
                        \subseteq PlainTokens) =>
                        /\ calls[d].params.tokenIn = calls[c].params.tokenIn
                        /\ calls[d].params.tokenOut = calls[c].params.tokenOut
                        /\ calls[d].params.amountIn = calls[c].params.amountIn

\* a request for A to B answered from the cache with the valid quote of the
\* other invocation, which asked for A to B and the same amount
C25_Witness ==
    \E c \in Calls, d \in Calls :
        /\ FromCache(c)
        /\ StoredFor(c, d)
        /\ calls[c].params = Params("A", "B", ToStr(MaxAmount))
        /\ calls[d].params = calls[c].params
        /\ calls[c].ret[1].isValid
        /\ calls[c].ret[1].amountIn = ToStr(MaxAmount)

\* the step taken is the one in which the invocation c of getBestQuote, having
\* computed its quote, stores it and returns
Writes(c) == Returns(c) /\ IsBestQuote(calls'[c])

\* C26: with getBestQuote calls in flight at once, a cache write replaces the
\* whole entry of its key with the writer's quote and the time of the write
\* and touches no other entry, and nothing but a write or clearCache changes
\* the cache: an entry is at every moment the pair of its latest writer.
C26_LastWriterWins ==
    [][/\ \A c \in Calls :
            Writes(c) =>
                LET key == getCacheKey(calls'[c].params)
                IN /\ DOMAIN quoteCache' = (DOMAIN quoteCache) \cup {key}
                   /\ quoteCache'[key] =
                          [quote |-> calls'[c].ret[1], timestamp |-> now]
                   /\ \A k \in (DOMAIN quoteCache) \ {key} :
                          quoteCache'[k] = quoteCache[k]
       /\ (\A c \in Calls : ~Writes(c)) =>
            (quoteCache' = quoteCache \/ quoteCache' = EmptyCache)
      ]_vars

\* two invocations for one key, both computed, with different quotes at
\* different times: the entry is the pair of c2, which wrote after c1
C26_Witness ==
    /\ calls["c1"].pc = "done"
    /\ calls["c2"].pc = "done"
    /\ calls["c1"].gwLog # <<>>
    /\ calls["c2"].gwLog # <<>>
    /\ calls["c1"].params = calls["c2"].params
    /\ calls["c1"].ret # calls["c2"].ret
    /\ getCacheKey(calls["c2"].params) \in DOMAIN quoteCache
    /\ quoteCache[getCacheKey(calls["c2"].params)] =
           [quote |-> calls["c2"].ret[1], timestamp |-> TickMs]
    /\ now = TickMs

\* C27: the gateway call of a second hop is issued only in the step in which
\* the first hop's call of the same intermediate is answered with a valid
\* quote of non-zero output, and its amountIn is that quote's amountOut; when
\* the first hop's call throws or is answered with an invalid or zero quote,
\* no call for the intermediate follows.
C27_SecondHopAfterFirst ==
    [][\A c \in Calls :
        LET before == calls[c]
            after == calls'[c]
            intermediate == getCommonIntermediateTokens[before.idx]
        IN /\ (after.pc = "hop2" /\ before.pc # "hop2") =>
                /\ before.pc = "hop1"
                /\ before.pending =
                       <<GatewayCall(before.params.tokenIn, intermediate,
                                     before.params.amountIn)>>
                /\ after.answers = Append(before.answers, "usable")
                /\ Len(after.firstHop) = 1
                /\ after.firstHop[1].isValid
                /\ ~IsNaNInt(after.firstHop[1].amountOut)
                /\ ParseInt(after.firstHop[1].amountOut) > 0
                /\ after.pending =
                       <<GatewayCall(intermediate, before.params.tokenOut,
                                     after.firstHop[1].amountOut)>>
                /\ after.gwLog = Append(before.gwLog, after.pending[1])
           /\ (before.pc = "hop1" /\ after # before
                  /\ after.answers # Append(before.answers, "usable")) =>
                /\ after.pc # "hop2"
                /\ \A i \in (Len(before.gwLog) + 1) .. Len(after.gwLog) :
                      after.gwLog[i].tokenIn # intermediate
    ]_vars

\* a request for the largest amount whose first hop returned 1: the second
\* hop's call asks for 1
C27_Witness ==
    \E c \in Calls :
        /\ calls[c].pc = "hop2"
        /\ calls[c].params.amountIn = ToStr(MaxAmount)
        /\ calls[c].firstHop[1].amountOut = "1"
        /\ calls[c].pending[1].amountIn = "1"
        /\ calls[c].pending[1].tokenOut = calls[c].params.tokenOut

\* C28: getBestQuote stores the quote it computed also when the quote is
\* invalid, and a getBestQuote that finds an invalid quote under its key, less
\* than CACHE_TTL old, returns that quote at once and issues no gateway call.
C28_InvalidQuoteCached ==
    [][\A c \in Calls :
        LET after == calls'[c]
            key == getCacheKey(after.params)
        IN /\ (Writes(c) /\ ~after.ret[1].isValid) =>
                /\ key \in DOMAIN quoteCache'
                /\ quoteCache'[key] = [quote |-> after.ret[1], timestamp |-> now]
           /\ (/\ Called(c)
               /\ IsBestQuote(after)
               /\ key \in DOMAIN quoteCache
               /\ ~quoteCache[key].quote.isValid
               /\ now - quoteCache[key].timestamp < CACHE_TTL) =>
                /\ after.pc = "done"
                /\ ~after.raised
                /\ after.ret = <<quoteCache[key].quote>>
                /\ after.gwLog = <<>>
    ]_vars

\* c1 found no route at time 0; c2, one tick later, is answered with c1's
\* invalid quote without a gateway call
C28_Witness ==
    /\ calls["c1"].pc = "done"
    /\ calls["c1"].gwLog # <<>>
    /\ ~calls["c1"].ret[1].isValid
    /\ FromCache("c2")
    /\ calls["c2"].params = calls["c1"].params
    /\ calls["c2"].params.amountIn = ToStr(MaxAmount)
    /\ calls["c2"].ret = calls["c1"].ret
    /\ getCacheKey(calls["c1"].params) \in DOMAIN quoteCache
    /\ quoteCache[getCacheKey(calls["c1"].params)].timestamp = 0
    /\ now = TickMs

\* C29: getQuoteWithRetry calls getBestQuote at most maxRetries times; it
\* returns what the first call that does not raise resolved with and calls no
\* more; after the failed attempt i, counted from 0, it waits 2^i seconds when
\* another attempt is left and not after the last one; it raises once
\* maxRetries attempts have failed.
C29_RetryBounded ==
    \A c \in Calls :
        calls[c].op = "getQuoteWithRetry" =>
            LET rec == calls[c]
                maxRetries == rec.input[1].maxRetries
            IN /\ rec.attempts <= maxRetries
               /\ Len(rec.waits) <= rec.attempts
               /\ Len(rec.waits) < maxRetries \/ maxRetries = 0
               /\ \A j \in 1 .. Len(rec.waits) : rec.waits[j].delay = (2^(j - 1)) * 1000
               /\ rec.pc = "backoff" => rec.attempts = Len(rec.waits)
               /\ rec.pc \in {"direct", "hop1", "hop2"} =>
                    rec.attempts = Len(rec.waits) + 1
               /\ (rec.pc = "done" /\ ~rec.raised) =>
                    /\ rec.attempts = Len(rec.waits) + 1
                    /\ rec.ret = rec.best
                    /\ Len(rec.ret) = 1
               /\ (rec.pc = "done" /\ rec.raised) =>
                    /\ rec.attempts = maxRetries
                    /\ Len(rec.waits) = Max(maxRetries - 1, 0)
                    /\ rec.ret = <<>>

\* three attempts without params: waits of 1 and 2 seconds, then the throw
C29_Witness ==
    \E c \in Calls :
        /\ calls[c].op = "getQuoteWithRetry"
        /\ calls[c].pc = "done"
        /\ calls[c].raised
        /\ calls[c].attempts = 3
        /\ Len(calls[c].waits) = 2
        /\ calls[c].waits[1].delay = 1000
        /\ calls[c].waits[2].delay = 2000

\* C30: a position leaves the cache of PositionManager only in a clearCache
\* or when PositionCacheTTL has passed since it was cached, and getPosition
\* serves no position from the cache later than PositionCacheTTL after it was
\* cached.
C30_PositionCachedForTTL ==
    [][/\ \A id \in DOMAIN positionCache :
            id \notin DOMAIN positionCache' =>
                \/ ClearPositionCache
                \/ now >= positionCache[id].cachedAt + PositionCacheTTL
       /\ \A c \in Calls :
            (Called(c) /\ calls'[c].op = "getPosition" /\ calls'[c].pc = "done") =>
                /\ calls'[c].input[1] \in DOMAIN positionCache
                /\ calls'[c].ret = <<positionCache[calls'[c].input[1]].position>>
                /\ now <= positionCache[calls'[c].input[1]].cachedAt + PositionCacheTTL
      ]_vars

====
